---- MODULE Spec2Model ----
(***************************************************************************)
(* A model of autoposter-core: the TikTok publish protocol of tiktok.py    *)
(* (post_video and its helpers), the credential table of db.py and the     *)
(* OAuth handlers of main.py.                                              *)
(*                                                                         *)
(* The specifications share the variables:                                 *)
(*   SpecPost      one run of post_video(file_path, access_token)          *)
(*   SpecStore     sequential calls of the credential functions of db.py   *)
(*   SpecApp       the OAuth handlers of main.py, one request at a time    *)
(*   SpecAppClock  SpecApp with time passing                               *)
(*   SpecDb        threads calling db.py on the shared connection          *)
(*   SpecOAuth     the OAuth functions of tiktok.py called directly        *)
(*   SpecUpload    one /upload request                                     *)
(*   SpecExpiry    one /upload request some time after the link            *)
(*   SpecAuth      get_current_user in front of the handlers               *)
(*   SpecRegister  /auth/register in worker processes                      *)
(* A specification leaves the variables of the others at their initial     *)
(* values.                                                                 *)
(***************************************************************************)
EXTENDS Integers, Sequences, FiniteSets, TLC

(***************************************************************************)
(* Values                                                                  *)
(***************************************************************************)
\* Python's None, and a key that a JSON object / dict does not hold.
None == "<None>"
Absent == "<absent>"

\* tiktok.py:11
CHUNK_SIZE == 10 * 1024 * 1024

\* Files hold up to MaxChunks full chunks plus a remainder.
MaxChunks == 3
\* How often another writer may replace the file during one run.
MaxFileChanges == 1
\* The upload loop is cut off after this many PUTs (it need not terminate).
MaxPuts == MaxChunks + 2

\* Users 1..MaxUsers exist in the users table.
MaxUsers == 2
\* Rows ever inserted into tiktok_tokens (AUTOINCREMENT ids 1..MaxRows).
MaxRows == 3
\* The clock runs from 0 to MaxClock seconds.
MaxClock == 1
\* Threads calling db.py at the same time.
MaxThreads == 2

\* State tokens secrets.token_urlsafe(32) can return.
MaxStates == 2

Users == 1..MaxUsers
StateTokens == 1..MaxStates
Threads == 1..MaxThreads

\* An optional integer: <<>> is None, <<n>> is n.
NoneInt == <<>>
Some(n) == <<n>>

AccessTokens == {"at1", "at2"}
\* The arguments save_tiktok_tokens is called with: an access token alone,
\* or with a refresh token and an expiry.
SaveBundles ==
    {[access_token |-> a, refresh_token |-> x[1], expires_at |-> x[2]] :
        a \in AccessTokens, x \in {<<None, NoneInt>>, <<"rt1", Some(MaxClock + 1)>>}}

Remainders == {0, 1, CHUNK_SIZE \div 2, CHUNK_SIZE - 1}
FileSizes ==
    {k * CHUNK_SIZE + r : k \in 0..(MaxChunks - 1), r \in Remainders}
        \cup {MaxChunks * CHUNK_SIZE}
\* The lengths the file may have after another writer replaced it.
ChangedSizes == {0, CHUNK_SIZE \div 2, CHUNK_SIZE + 1, MaxChunks * CHUNK_SIZE}

\* access_token argument of post_video / TIKTOK_ACCESS_TOKEN of the process
TokenArgs == {None, "", "tokA"}
EnvTokens == {None, "", "tokE"}

HttpStatuses == {200, 401}
PutStatuses == {200, 201, 206, 404, 500}
ErrorCodes == {Absent, "ok", "access_token_invalid"}
ErrorMessages == {Absent, "The access token is invalid"}
PublishIds == {Absent, "p1", "p2"}
UploadUrls == {Absent, "https://upload/u1"}
StatusValues == {Absent, "PROCESSING_UPLOAD", "PUBLISH_COMPLETE"}

\* A JSON response body of the init or the status endpoint: an optional
\* "error" object with optional code and message, an optional "data" object
\* with optional publish_id and upload_url (init) or status (status; the
\* code reads nothing else of it).
Responses ==
    {r \in [http : HttpStatuses, has_error : BOOLEAN, code : ErrorCodes,
            message : ErrorMessages, has_data : BOOLEAN,
            publish_id : PublishIds, upload_url : UploadUrls,
            status : StatusValues] :
        /\ (~r.has_error => r.code = Absent /\ r.message = Absent)
        /\ (~r.has_data => r.publish_id = Absent /\ r.upload_url = Absent
                            /\ r.status = Absent)}
InitResponses == {r \in Responses : r.status = Absent}
StatusResponses ==
    {r \in Responses : r.upload_url = Absent /\ r.publish_id = Absent}

NoResponse ==
    [http |-> 0, has_error |-> FALSE, code |-> Absent, message |-> Absent,
     has_data |-> FALSE, publish_id |-> Absent, upload_url |-> Absent,
     status |-> Absent]

\* An exception: its class, and for TikTokAPIError its code and message.
\* A message is its text and the numbers formatted into it (-1: none).
Msg(text, index, status) == [text |-> text, index |-> index, status |-> status]
Exc(type, code, message) == [type |-> type, code |-> code, message |-> message]
NoExc == Exc("none", Absent, Msg("", -1, -1))

Min(a, b) == IF a < b THEN a ELSE b
Max(a, b) == IF a > b THEN a ELSE b

VARIABLES
    \* ---- post_video
    access_token,   \* the access_token argument
    env_token,      \* os.getenv("TIKTOK_ACCESS_TOKEN")
    file_exists,    \* os.path.exists(file_path)
    disk_len,       \* the number of bytes the file holds now
    changes,        \* how often the file was replaced during the run
    pc,             \* the position of post_video
    token,          \* post_video: token
    file_size,      \* post_video: file_size
    fpos,           \* _upload_video_chunks: the read position of f
    offset,         \* _upload_video_chunks: offset
    chunk_index,    \* _upload_video_chunks: chunk_index
    chunk_end,      \* _upload_video_chunks: chunk_end
    init_data,      \* post_video: publish_id and upload_url
    init_reqs,      \* the requests sent to the init endpoint
    puts,           \* the PUT requests sent, in order, each with the file
                    \* position its bytes were read from and whether it
                    \* was answered, and answered 200, 201 or 206
    put_status,     \* the status of the latest PUT response (0: none yet)
    status_reqs,    \* the requests sent to the status endpoint
    last_resp,      \* the latest init / status response body
    trace,          \* the steps taken, in order
    exc,            \* the exception that ended the run
    result          \* the value post_video returned

postVars ==
    <<access_token, env_token, file_exists, disk_len, changes, pc, token,
      file_size, fpos, offset, chunk_index, chunk_end, init_data, init_reqs, puts,
      put_status, status_reqs, last_resp, trace, exc, result>>

VARIABLES
    \* ---- db.py
    tiktok_tokens,  \* the rows of table tiktok_tokens as conn sees them
    committed,      \* the rows as of the last conn.commit()
    next_id,        \* the next AUTOINCREMENT id of tiktok_tokens
    now,            \* the clock, in seconds
    latest,         \* per user, the arguments of the latest save (kept
                    \* where saves run one after the other)
    db_ret,         \* what the latest get_tiktok_tokens / has_tiktok_linked
                    \* returned, and whether a save for the same user that
                    \* began with a committed row present was under way then
    \* ---- threads on the shared connection
    thr             \* per thread, the db.py call it is in

VARIABLES
    \* ---- tiktok.py configuration and main.py
    client_key,     \* TIKTOK_CLIENT_KEY
    client_secret,  \* TIKTOK_CLIENT_SECRET
    redirect_uri,   \* TIKTOK_REDIRECT_URI
    oauth_states,   \* main.py: oauth_states, state -> {user_id, created_at}
    issued,         \* the states get_authorization_url has returned so far
    token_reqs,     \* the number of requests sent to the token endpoint
    succ,           \* per state, the number of callbacks answered 200
    resp            \* the answer to the latest request; flip changes with
                    \* every request handled

appVars ==
    <<client_key, client_secret, redirect_uri, oauth_states, issued,
      token_reqs, succ, resp>>

dbVars == <<tiktok_tokens, committed, next_id, now, latest, db_ret>>
thrVars == <<thr>>

VARIABLES
    \* ---- tiktok.py: the OAuth functions called directly
    call            \* the latest call of get_authorization_url or
                    \* exchange_code_for_token: its input, the exception it
                    \* raised, what it returned, whether it sent a request

callVars == <<call>>

VARIABLES
    \* ---- main.py: one /upload request
    upl,            \* the request and the position of upload_video, its
                    \* answer, and the calls of post_video it made
    files,          \* the paths of the files upload_video has written
    posts           \* the rows of table posts, in the order of insertion

upVars == <<upl, files, posts>>

VARIABLES
    \* ---- auth.py: the dependency get_current_user
    auth            \* the endpoint and the credentials of the request, and
                    \* what get_current_user made of them

authVars == <<auth>>

VARIABLES
    \* ---- main.py register, db.py users
    users,          \* the rows of table users
    reg             \* per worker process, the /auth/register request it
                    \* handles and its answer

regVars == <<users, reg>>

vars ==
    <<postVars, dbVars, thrVars, appVars, callVars, upVars, authVars,
      regVars>>

NoResult == [success |-> FALSE, publish_id |-> Absent, status |-> Absent]
NoInitData == [publish_id |-> Absent, upload_url |-> Absent]

(***************************************************************************)
(* tiktok.py: pure parts                                                   *)
(***************************************************************************)
\* Python truthiness of an optional string: None and "" are falsy.
Truthy(s) == s # None /\ s # ""

\* A variant of get_access_token without the check of line 51.
GetAccessTokenRaises_NoCheck(env) == FALSE

\* get_access_token: the environment token, or MissingTokenError.
GetAccessTokenRaises(env) == ~Truthy(env)

\* post_video lines 231-234: the explicit token wins when it is not None.
ResolveRaises(arg, env) == arg = None /\ GetAccessTokenRaises(env)

\* A variant of lines 231-234 that falls back to the environment for every
\* falsy argument, the empty string included.
ResolveToken_Truthy(arg, env) == IF arg # None /\ arg # "" THEN arg ELSE env

ResolveToken(arg, env) == IF arg = None THEN env ELSE arg

\* A variant of line 152 that never reports fewer than one chunk.
TotalChunkCount_AtLeastOne(size) ==
    IF size = 0 THEN 1 ELSE (size + CHUNK_SIZE - 1) \div CHUNK_SIZE

\* _init_video_upload line 152
TotalChunkCount(size) == (size + CHUNK_SIZE - 1) \div CHUNK_SIZE

\* A variant of line 175 that also enters the loop with offset = file_size.
LoopContinues_Inclusive(off, size) == off <= size

\* _upload_video_chunks line 175: while offset < file_size
LoopContinues(off, size) == off < size

\* f.read(CHUNK_SIZE): the bytes left in the file, at most CHUNK_SIZE.
ReadLen(pos, len) == Min(CHUNK_SIZE, Max(0, len - pos))

\* A variant of line 177 that takes chunk_end to be the last byte sent.
ChunkEnd_LastByte(off, n, size) == Min(off + n, size) - 1

\* _upload_video_chunks line 177
ChunkEnd(off, n, size) == Min(off + n, size)

\* A variant of line 182 that writes chunk_end as the end of the range.
PutHeaders_ExclusiveEnd(off, n, size) ==
    [length |-> n, start |-> off, end |-> Min(off + n, size), total |-> size]

\* _upload_video_chunks lines 179-183: Content-Length and Content-Range
PutHeaders(off, n, size) ==
    [length |-> n, start |-> off, end |-> ChunkEnd(off, n, size) - 1,
     total |-> size]

\* A variant of line 187 that does not take 206 as a success.
PutOk_No206(status) == status \in {200, 201}

\* A loop that looks at no status code.
PutOk_Any(status) == TRUE

\* _upload_video_chunks line 187
PutOk(status) == status \in {200, 201, 206}

\* A variant of line 159 that trusts the HTTP status.
InitSentinelFails_Http(r) == r.http # 200

\* _init_video_upload line 159 / _check_publish_status line 206:
\* data.get("error", {}).get("code") != "ok"
InitSentinelFails(r) == r.code # "ok"
StatusSentinelFails(r) == r.code # "ok"

\* A variant of lines 160-164 that drops the platform's code and message.
ApiErrorOf_Generic(r) ==
    [type |-> "TikTokAPIError", code |-> "unknown",
     message |-> [text |-> "Unknown error occurred", index |-> -1,
                  status |-> -1]]

\* lines 160-164 / 207-211: error.get("code", "unknown"), error.get("message", ...)
ApiErrorOf(r) ==
    Exc("TikTokAPIError",
        IF r.code = Absent THEN "unknown" ELSE r.code,
        Msg(IF r.message = Absent THEN "Unknown error occurred" ELSE r.message,
            -1, -1))

KeyError == Exc("KeyError", Absent, Msg("", -1, -1))

(***************************************************************************)
(* post_video, one step at a time                                          *)
(***************************************************************************)
InitDb ==
    /\ tiktok_tokens = {}
    /\ committed = {}
    /\ next_id = 1
    /\ now = 0
    /\ latest = [u \in Users |-> <<>>]
    /\ db_ret = [fn |-> "none", user |-> 0, value |-> <<>>, linked |-> FALSE,
                 saving |-> FALSE]

IdleThread ==
    [op |-> "idle", pc |-> "idle", user |-> 0, access_token |-> None,
     refresh_token |-> None, expires_at |-> NoneInt, had |-> FALSE]

InitThreads ==
    /\ thr = [t \in Threads |-> IdleThread]

NoAnswer ==
    [flip |-> FALSE, handler |-> "none", user |-> 0, state |-> 0, http |-> 0,
     error |-> NoExc]

\* No call of the OAuth functions yet.
NoCall ==
    [fn |-> "none", exc |-> NoExc, sent |-> FALSE,
     request |-> <<>>, response |-> <<>>, bundle |-> <<>>, url |-> <<>>,
     state |-> 0]

\* No /upload request yet.
NoUpload ==
    [pc |-> "idle", user |-> 0, filename |-> "", content |-> 0,
     calls |-> <<>>, http |-> 0, body |-> <<>>, detail |-> <<>>]

\* No request authenticated yet.
NoCredentials == [scheme |-> "none", verifies |-> FALSE, sub |-> Absent]
NoAuth == [endpoint |-> "none", cred |-> NoCredentials, http |-> 0, user |-> 0]

\* The users table holds users 1..MaxUsers, named user1, user2, ...
UserName(u) == "user" \o ToString(u)
ExistingUsers == {[id |-> u, username |-> UserName(u)] : u \in Users}

\* No /auth/register request in a worker process.
NoRegister ==
    [pc |-> "idle", username |-> "", http |-> 0, token |-> NoneInt]

\* No request handled yet.
InitHandlers ==
    /\ oauth_states = <<>>
    /\ issued = {}
    /\ token_reqs = 0
    /\ succ = [st \in StateTokens |-> 0]
    /\ resp = NoAnswer
    /\ call = NoCall
    /\ upl = NoUpload
    /\ files = {}
    /\ posts = <<>>
    /\ auth = NoAuth
    /\ users = ExistingUsers
    /\ reg = [p \in Threads |-> NoRegister]

Configured ==
    /\ client_key = "ck"
    /\ client_secret = "cs"
    /\ redirect_uri = "https://app/callback"

\* post_video touches neither the database nor the handlers' state.
PostFrame ==
    UNCHANGED <<dbVars, thrVars, appVars, callVars, upVars, authVars,
                regVars>>

\* The locals of post_video and the record of its requests before its
\* first step
PostLocals ==
    /\ changes = 0
    /\ token = None
    /\ file_size = 0
    /\ fpos = 0
    /\ offset = 0
    /\ chunk_index = 0
    /\ chunk_end = 0
    /\ init_data = NoInitData
    /\ init_reqs = <<>>
    /\ puts = <<>>
    /\ put_status = 0
    /\ status_reqs = <<>>
    /\ last_resp = NoResponse
    /\ trace = <<>>
    /\ exc = NoExc
    /\ result = NoResult

PostUnstarted == pc = "resolve" /\ PostLocals

\* No post_video call: the specifications of the database and the handlers
NoPost ==
    /\ access_token = None
    /\ env_token = None
    /\ file_exists = FALSE
    /\ disk_len = 0
    /\ PostUnstarted

InitPost ==
    /\ access_token \in TokenArgs
    /\ env_token \in EnvTokens
    /\ file_exists \in BOOLEAN
    /\ disk_len \in FileSizes
    /\ (~file_exists => disk_len = 0)
    /\ PostUnstarted
    /\ InitDb
    /\ InitThreads
    /\ InitHandlers
    /\ Configured

Raise(e) == pc' = "raised" /\ exc' = e

\* post_video lines 231-234
ResolveCredential ==
    /\ PostFrame
    /\ pc = "resolve"
    /\ trace' = Append(trace, "resolve")
    /\ IF ResolveRaises(access_token, env_token)
       THEN Raise(Exc("MissingTokenError", Absent, Msg("", -1, -1)))
            /\ UNCHANGED token
       ELSE /\ token' = ResolveToken(access_token, env_token)
            /\ pc' = "checkfile"
            /\ UNCHANGED exc
    /\ UNCHANGED <<access_token, env_token, file_exists, disk_len, changes,
                   file_size, fpos, offset, chunk_index, chunk_end, init_data,
                   init_reqs, puts, put_status, status_reqs, last_resp, result>>

\* post_video lines 236-239
CheckFile ==
    /\ PostFrame
    /\ pc = "checkfile"
    /\ trace' = Append(trace, "filecheck")
    /\ IF ~file_exists
       THEN Raise(Exc("FileNotFoundError", Absent, Msg("", -1, -1)))
            /\ UNCHANGED file_size
       ELSE /\ file_size' = disk_len
            /\ pc' = "init"
            /\ UNCHANGED exc
    /\ UNCHANGED <<access_token, env_token, file_exists, disk_len, changes,
                   token, fpos, offset, chunk_index, chunk_end, init_data,
                   init_reqs, puts, put_status, status_reqs, last_resp, result>>

\* _init_video_upload lines 138-156: the request
InitRequest ==
    /\ PostFrame
    /\ pc = "init"
    /\ init_reqs' = Append(init_reqs,
            [token |-> token, video_size |-> file_size,
             chunk_size |-> CHUNK_SIZE,
             total_chunk_count |-> TotalChunkCount(file_size)])
    /\ trace' = Append(trace, "init_req")
    /\ pc' = "init_wait"
    /\ UNCHANGED <<access_token, env_token, file_exists, disk_len, changes,
                   token, file_size, fpos, offset, chunk_index, chunk_end,
                   init_data, puts, put_status, status_reqs, last_resp, exc,
                   result>>

\* What _init_video_upload (lines 157-166) and then post_video lines 242-243
\* make of the response r: the exception raised, or NoExc.
InitOutcome(r) ==
    IF InitSentinelFails(r) THEN ApiErrorOf(r)
    ELSE IF ~r.has_data THEN KeyError
    ELSE IF r.publish_id = Absent \/ r.upload_url = Absent THEN KeyError
    ELSE NoExc

\* _init_video_upload lines 156-157: the response arrives
InitResponse ==
    /\ PostFrame
    /\ pc = "init_wait"
    /\ \E r \in InitResponses :
        /\ last_resp' = r
        \* the trace notes what the platform answered
        /\ trace' = Append(trace, IF r.code = "ok" THEN "init_resp_ok"
                                                   ELSE "init_resp_err")
    /\ pc' = "init_check"
    /\ UNCHANGED <<access_token, env_token, file_exists, disk_len, changes,
                   token, file_size, fpos, offset, chunk_index, chunk_end,
                   init_data, init_reqs, puts, put_status, status_reqs, exc,
                   result>>

\* _init_video_upload lines 159-166 and post_video lines 242-243. The
\* response is a local of _init_video_upload: it is kept when the function
\* raises and gone when it returns.
InitReturn ==
    /\ PostFrame
    /\ pc = "init_check"
    /\ IF InitOutcome(last_resp) # NoExc
       THEN Raise(InitOutcome(last_resp))
            /\ UNCHANGED <<init_data, last_resp>>
       ELSE /\ init_data' = [publish_id |-> last_resp.publish_id,
                             upload_url |-> last_resp.upload_url]
            /\ last_resp' = NoResponse
            /\ pc' = "loop"
            /\ UNCHANGED exc
    /\ UNCHANGED <<access_token, env_token, file_exists, disk_len, changes,
                   token, file_size, fpos, offset, chunk_index, chunk_end,
                   init_reqs, puts, put_status, status_reqs, trace, result>>

\* _upload_video_chunks lines 175-185: one iteration up to the PUT
PutRequest ==
    /\ PostFrame
    /\ pc = "loop"
    /\ LoopContinues(offset, file_size)
    /\ Len(puts) < MaxPuts
    /\ LET n == ReadLen(fpos, disk_len) IN
        /\ fpos' = fpos + n
        /\ chunk_end' = ChunkEnd(offset, n, file_size)
        /\ puts' = Append(puts,
                [url |-> init_data.upload_url, index |-> chunk_index,
                 from |-> fpos, hdr |-> PutHeaders(offset, n, file_size),
                 answered |-> FALSE, success |-> FALSE])
    /\ trace' = Append(trace, "put_req")
    /\ pc' = "put_wait"
    /\ UNCHANGED <<access_token, env_token, file_exists, disk_len, changes,
                   token, file_size, offset, chunk_index, init_data,
                   init_reqs, put_status, status_reqs, last_resp, exc, result>>

UploadFailed(index, status) ==
    Exc("TikTokAPIError", "upload_failed",
        Msg("Chunk {chunk_index} upload failed with status {status_code}",
            index, status))

\* _upload_video_chunks lines 185-194: the response to the PUT
PutResponse ==
    /\ PostFrame
    /\ pc = "put_wait"
    /\ \E s \in PutStatuses :
        /\ put_status' = s
        \* the record notes what the platform answered
        /\ puts' = [puts EXCEPT ![Len(puts)].answered = TRUE,
                                ![Len(puts)].success = s \in {200, 201, 206}]
        /\ IF ~PutOk(s)
           THEN Raise(UploadFailed(chunk_index, s))
                /\ UNCHANGED <<offset, chunk_index>>
           ELSE /\ offset' = chunk_end
                /\ chunk_index' = chunk_index + 1
                /\ pc' = "loop"
                /\ UNCHANGED exc
    /\ trace' = Append(trace, "put_resp")
    /\ UNCHANGED <<access_token, env_token, file_exists, disk_len, changes,
                   token, file_size, fpos, chunk_end, init_data, init_reqs,
                   status_reqs, last_resp, result>>

\* _upload_video_chunks line 175: the loop ends, the file is closed
LoopExit ==
    /\ PostFrame
    /\ pc = "loop"
    /\ ~LoopContinues(offset, file_size)
    /\ pc' = "status"
    /\ UNCHANGED <<access_token, env_token, file_exists, disk_len, changes,
                   token, file_size, fpos, offset, chunk_index, chunk_end,
                   init_data, init_reqs, puts, put_status, status_reqs,
                   last_resp, trace, exc, result>>

\* _check_publish_status lines 199-203: the request
StatusRequest ==
    /\ PostFrame
    /\ pc = "status"
    /\ status_reqs' = Append(status_reqs,
            [token |-> token, publish_id |-> init_data.publish_id])
    /\ trace' = Append(trace, "status_req")
    /\ pc' = "status_wait"
    /\ UNCHANGED <<access_token, env_token, file_exists, disk_len, changes,
                   token, file_size, fpos, offset, chunk_index, chunk_end,
                   init_data, init_reqs, puts, put_status, last_resp, exc,
                   result>>

\* What _check_publish_status lines 204-213 makes of the response r.
StatusOutcome(r) ==
    IF StatusSentinelFails(r) THEN ApiErrorOf(r)
    ELSE IF ~r.has_data THEN KeyError
    ELSE NoExc

\* A variant of lines 249-253 that reports success only once published.
PostResult_WhenComplete(publish_id, r) ==
    [success |-> r.status = "PUBLISH_COMPLETE", publish_id |-> publish_id,
     status |-> IF r.status = Absent THEN "UNKNOWN" ELSE r.status]

\* A variant of line 252 without the default: status_data["status"] as it is.
PostResult_NoDefault(publish_id, r) ==
    [success |-> TRUE, publish_id |-> publish_id, status |-> r.status]

\* post_video lines 249-253
PostResult(publish_id, r) ==
    [success |-> TRUE, publish_id |-> publish_id,
     status |-> IF r.status = Absent THEN "UNKNOWN" ELSE r.status]

\* _check_publish_status lines 203-213 and post_video lines 249-253: the
\* response arrives and ends the run
StatusResponse ==
    /\ PostFrame
    /\ pc = "status_wait"
    /\ \E r \in StatusResponses :
        /\ last_resp' = r
        /\ IF StatusOutcome(r) # NoExc
           THEN Raise(StatusOutcome(r)) /\ UNCHANGED result
           ELSE /\ result' = PostResult(init_data.publish_id, r)
                /\ pc' = "done"
                /\ UNCHANGED exc
    /\ trace' = Append(trace, "status_resp")
    /\ UNCHANGED <<access_token, env_token, file_exists, disk_len, changes,
                   token, file_size, fpos, offset, chunk_index, chunk_end,
                   init_data, init_reqs, puts, put_status, status_reqs>>

\* Another request writes the same path (main.py lines 193-194: open(path,
\* "wb") truncates the file, copyfileobj fills it) after post_video read the
\* size. What the next f.read sees is the same whether the write happens
\* before or while post_video waits for a response, so the write is placed
\* in the waits.
FileChange ==
    /\ PostFrame
    /\ pc \in {"init_wait", "put_wait"}
    /\ changes < MaxFileChanges
    /\ \E n \in ChangedSizes \ {disk_len} : disk_len' = n
    /\ changes' = changes + 1
    /\ UNCHANGED <<access_token, env_token, file_exists, pc, token,
                   file_size, fpos, offset, chunk_index, chunk_end, init_data,
                   init_reqs, puts, put_status, status_reqs, last_resp, trace,
                   exc, result>>

NextPost ==
    \/ ResolveCredential
    \/ CheckFile
    \/ InitRequest
    \/ InitResponse
    \/ InitReturn
    \/ PutRequest
    \/ PutResponse
    \/ LoopExit
    \/ StatusRequest
    \/ StatusResponse
    \/ FileChange

SpecPost == InitPost /\ [][NextPost]_vars

(***************************************************************************)
(* db.py: the table tiktok_tokens on the shared connection conn            *)
(***************************************************************************)
RowsOf(rows, u) == {r \in rows : r.user_id = u}

\* A variant of line 105 without the WHERE clause's effect: nothing deleted.
DeleteTokens_Nothing(rows, u) == rows

\* DELETE FROM tiktok_tokens without the WHERE clause.
DeleteTokens_All(rows, u) == {}

\* save_tiktok_tokens line 105: DELETE FROM tiktok_tokens WHERE user_id = ?
DeleteTokens(rows, u) == rows \ RowsOf(rows, u)

\* A variant of lines 106-109 that stores no refresh token and no expiry.
InsertToken_AccessOnly(rows, id, u, a, r, e, t) ==
    rows \cup {[id |-> id, user_id |-> u, access_token |-> a,
                refresh_token |-> None, expires_at |-> NoneInt,
                created_at |-> t]}

\* save_tiktok_tokens lines 106-109: INSERT INTO tiktok_tokens ...; id is
\* the AUTOINCREMENT key, created_at defaults to CURRENT_TIMESTAMP.
InsertToken(rows, id, u, a, r, e, t) ==
    rows \cup {[id |-> id, user_id |-> u, access_token |-> a,
                refresh_token |-> r, expires_at |-> e, created_at |-> t]}

TokenDict(r) ==
    [access_token |-> r.access_token, refresh_token |-> r.refresh_token,
     expires_at |-> r.expires_at]

\* A variant of get_tiktok_tokens that returns no credential whose
\* expires_at has passed.
GetTikTokTokens_Unexpired(rows, u) ==
    LET live == {r \in rows : /\ r.user_id = u
                              /\ (r.expires_at = NoneInt
                                    \/ r.expires_at[1] > now)} IN
    IF live = {} THEN {<<>>}
    ELSE {<<[access_token |-> r.access_token,
             refresh_token |-> r.refresh_token,
             expires_at |-> r.expires_at]>> : r \in live}

\* A variant of get_tiktok_tokens whose SELECT has no WHERE clause: the
\* latest row of any user.
GetTikTokTokens_AnyUser(rows, u) ==
    IF rows = {} THEN {<<>>}
    ELSE {<<[access_token |-> r.access_token,
             refresh_token |-> r.refresh_token,
             expires_at |-> r.expires_at]>> :
            r \in {x \in rows : \A y \in rows : y.created_at <= x.created_at}}

\* get_tiktok_tokens: SELECT ... WHERE user_id = ? ORDER BY created_at DESC
\* LIMIT 1, as the set of values it may return: <<>> is None, <<d>> the dict
\* d of a row with the latest created_at (SQL leaves the choice among equal
\* created_at open).
GetTikTokTokens(rows, u) ==
    IF RowsOf(rows, u) = {} THEN {<<>>}
    ELSE {<<TokenDict(r)>> :
            r \in {x \in RowsOf(rows, u) :
                    \A y \in RowsOf(rows, u) : y.created_at <= x.created_at}}

\* A COUNT(*) without the WHERE clause.
HasTikTokLinked_AnyUser(rows, u) == Cardinality(rows) > 0

\* has_tiktok_linked: SELECT COUNT(*) ... > 0
HasTikTokLinked(rows, u) == Cardinality(RowsOf(rows, u)) > 0

SaveArgs(a, r, e) ==
    <<[access_token |-> a, refresh_token |-> r, expires_at |-> e]>>

\* The post-state of a whole save_tiktok_tokens(u, a, r, e) call, lines
\* 105-110: DELETE, INSERT, commit.
SaveTikTokTokens(u, a, r, e) ==
    /\ tiktok_tokens' =
          InsertToken(DeleteTokens(tiktok_tokens, u), next_id, u, a, r, e, now)
    /\ committed' = tiktok_tokens'
    /\ next_id' = next_id + 1
    /\ latest' = [latest EXCEPT ![u] = SaveArgs(a, r, e)]

(***************************************************************************)
(* SpecStore: the credential functions called one after the other          *)
(***************************************************************************)
StoreFrame ==
    UNCHANGED <<postVars, thrVars, appVars, callVars, upVars, authVars,
                regVars>>

SaveCall ==
    /\ StoreFrame
    /\ next_id <= MaxRows
    /\ \E u \in Users, c \in SaveBundles :
        SaveTikTokTokens(u, c.access_token, c.refresh_token, c.expires_at)
    /\ UNCHANGED <<now, db_ret>>

GetCall ==
    /\ StoreFrame
    /\ \E u \in Users : \E v \in GetTikTokTokens(tiktok_tokens, u) :
        db_ret' = [fn |-> "get_tiktok_tokens", user |-> u, value |-> v,
                   linked |-> v # <<>>, saving |-> FALSE]
    /\ UNCHANGED <<tiktok_tokens, committed, next_id, now, latest>>

HasCall ==
    /\ StoreFrame
    /\ \E u \in Users :
        db_ret' = [fn |-> "has_tiktok_linked", user |-> u, value |-> <<>>,
                   linked |-> HasTikTokLinked(tiktok_tokens, u),
                   saving |-> FALSE]
    /\ UNCHANGED <<tiktok_tokens, committed, next_id, now, latest>>

\* A second passes.
Tick ==
    /\ now < MaxClock
    /\ now' = now + 1
    /\ UNCHANGED <<postVars, thrVars, appVars, callVars, upVars, authVars,
                   regVars, tiktok_tokens, committed, next_id, latest,
                   db_ret>>

NextStore == SaveCall \/ GetCall \/ HasCall \/ Tick

InitStore ==
    NoPost /\ InitDb /\ InitThreads /\ InitHandlers /\ Configured

SpecStore == InitStore /\ [][NextStore]_vars

(***************************************************************************)
(* SpecDb: threads calling db.py on the one connection. SQLite runs one    *)
(* statement of a connection at a time; between two statements of one      *)
(* call another thread's statement may run, and it sees what the first     *)
(* left, committed or not.                                                 *)
(***************************************************************************)
DbFrame ==
    UNCHANGED <<postVars, appVars, callVars, upVars, authVars, regVars>>
Saving(t, u) == thr[t].op = "save" /\ thr[t].user = u

\* The arguments the threads' saves are called with: a bare access token,
\* and a full bundle.
ThreadSaves ==
    {c \in SaveBundles :
        (c.access_token = "at1") <=> (c.refresh_token = None)}

\* save_tiktok_tokens line 105, run by thread t
SaveDelete(t) ==
    /\ DbFrame
    /\ thr[t].op = "idle"
    /\ next_id + Cardinality({x \in Threads : thr[x].pc = "insert"}) <= MaxRows
    /\ \E u \in Users, c \in ThreadSaves :
        /\ thr' = [thr EXCEPT ![t] =
                    [op |-> "save", pc |-> "insert", user |-> u,
                     access_token |-> c.access_token,
                     refresh_token |-> c.refresh_token,
                     expires_at |-> c.expires_at,
                     had |-> RowsOf(committed, u) # {}
                             /\ RowsOf(tiktok_tokens, u) # {}]]
        /\ tiktok_tokens' = DeleteTokens(tiktok_tokens, u)
    /\ UNCHANGED <<committed, next_id, now, latest, db_ret>>

\* save_tiktok_tokens lines 106-109, run by thread t
SaveInsert(t) ==
    /\ DbFrame
    /\ thr[t].pc = "insert"
    /\ tiktok_tokens' =
          InsertToken(tiktok_tokens, next_id, thr[t].user,
                      thr[t].access_token, thr[t].refresh_token,
                      thr[t].expires_at, now)
    /\ next_id' = next_id + 1
    /\ thr' = [thr EXCEPT ![t].pc = "commit"]
    /\ UNCHANGED <<committed, now, latest, db_ret>>

\* save_tiktok_tokens line 110, run by thread t: conn.commit() commits all
\* that the connection holds.
SaveCommit(t) ==
    /\ DbFrame
    /\ thr[t].pc = "commit"
    /\ committed' = tiktok_tokens
    /\ thr' = [thr EXCEPT ![t] = IdleThread]
    /\ UNCHANGED <<tiktok_tokens, next_id, now, latest, db_ret>>

\* Whether a save for u that began with a committed row of u present is
\* under way.
SaveUnderWay(u) == \E x \in Threads : Saving(x, u) /\ thr[x].had

\* get_tiktok_tokens lines 115-126, run by thread t
ReadGet(t) ==
    /\ DbFrame
    /\ thr[t].op = "idle"
    /\ \E u \in Users : \E v \in GetTikTokTokens(tiktok_tokens, u) :
        db_ret' = [fn |-> "get_tiktok_tokens", user |-> u, value |-> v,
                   linked |-> v # <<>>, saving |-> SaveUnderWay(u)]
    /\ UNCHANGED <<tiktok_tokens, committed, next_id, now, latest, thr>>

\* has_tiktok_linked lines 131-135, run by thread t
ReadHas(t) ==
    /\ DbFrame
    /\ thr[t].op = "idle"
    /\ \E u \in Users :
        db_ret' = [fn |-> "has_tiktok_linked", user |-> u, value |-> <<>>,
                   linked |-> HasTikTokLinked(tiktok_tokens, u),
                   saving |-> SaveUnderWay(u)]
    /\ UNCHANGED <<tiktok_tokens, committed, next_id, now, latest, thr>>

NextDb ==
    \/ \E t \in Threads : SaveDelete(t)
    \/ \E t \in Threads : SaveInsert(t)
    \/ \E t \in Threads : SaveCommit(t)
    \/ \E t \in Threads : ReadGet(t)
    \/ \E t \in Threads : ReadHas(t)
    \/ Tick

SpecDb == InitStore /\ [][NextDb]_vars

(***************************************************************************)
(* tiktok.py: OAuth                                                        *)
(***************************************************************************)
\* os.getenv of lines 14-16: unset, empty or set; the redirect URI has a
\* default and is never None.
ClientKeys == {None, "", "ck"}
ClientSecrets == {None, "", "cs"}
RedirectUris == {"", "https://app/callback"}
Codes == {"code1"}

\* A JSON body of the token endpoint with its HTTP status. The fields the
\* code does not read of a body are left out of it: the description and
\* message of a body it accepts, the refresh token and lifetime of one it
\* rejects.
TokenResponses ==
    {r \in [http : {200, 400}, error : {Absent, "invalid_grant"},
            error_description : {Absent, "Authorization code is expired"},
            message : {Absent, "bad request"},
            access_token : {Absent} \cup AccessTokens,
            refresh_token : {Absent, "rt1"},
            expires_in : {NoneInt, Some(0), Some(1)}] :
        IF r.error = Absent /\ r.http = 200
        THEN r.error_description = Absent /\ r.message = Absent
        ELSE /\ r.refresh_token = Absent /\ r.expires_in = NoneInt
             /\ r.access_token # "at2"}

MissingOAuthConfigError ==
    Exc("MissingOAuthConfigError", Absent, Msg("", -1, -1))

\* A variant of line 73 that checks the client key only.
AuthUrlRaises_KeyOnly == ~Truthy(client_key)

\* get_authorization_url line 73
AuthUrlRaises == ~Truthy(client_key) \/ ~Truthy(redirect_uri)

\* exchange_code_for_token line 103
ExchangeConfigMissing == ~Truthy(client_key) \/ ~Truthy(client_secret)

\* A variant of line 121 that looks at the HTTP status only.
ExchangeOutcome_StatusOnly(r) ==
    IF r.http # 200
    THEN [type |-> "TikTokAPIError",
          code |-> IF r.error = Absent THEN "token_exchange_failed"
                   ELSE r.error,
          message |-> [text |-> "Token exchange failed", index |-> -1,
                       status |-> -1]]
    ELSE IF r.access_token = Absent
    THEN [type |-> "KeyError", code |-> Absent,
          message |-> [text |-> "", index |-> -1, status |-> -1]]
    ELSE [type |-> "none", code |-> Absent,
          message |-> [text |-> "", index |-> -1, status |-> -1]]

\* exchange_code_for_token lines 121-133: the exception the response r
\* leads to, or NoExc.
ExchangeOutcome(r) ==
    IF r.error # Absent \/ r.http # 200
    THEN Exc("TikTokAPIError",
             IF r.error = Absent THEN "token_exchange_failed" ELSE r.error,
             Msg(IF r.error_description # Absent THEN r.error_description
                 ELSE IF r.message # Absent THEN r.message
                 ELSE "Token exchange failed", -1, -1))
    ELSE IF r.access_token = Absent THEN KeyError
    ELSE NoExc

OptStr(v) == IF v = Absent THEN None ELSE v

\* tiktok_callback lines 157-159: expires_at
ExpiresAt(expires_in, t) ==
    IF expires_in = NoneInt \/ expires_in = Some(0) THEN NoneInt
    ELSE Some(t + expires_in[1])

(***************************************************************************)
(* main.py: the OAuth handlers. Each is an async function without an       *)
(* await: the event loop runs one request to its end before the next.      *)
(***************************************************************************)
AppFrame ==
    UNCHANGED <<postVars, thrVars, callVars, upVars, authVars, regVars>>
Config == <<client_key, client_secret, redirect_uri>>

Answer(handler, u, st, http, e) ==
    [flip |-> ~resp.flip, handler |-> handler, user |-> u, state |-> st,
     http |-> http, error |-> e]

\* A variant of line 151 that reads the entry and leaves it in the store.
PopState_Keep(states, st) == states

\* A callback that empties the dictionary.
PopState_Clear(states, st) == <<>>

\* tiktok_callback line 151: oauth_states.pop(state), the store afterwards
PopState(states, st) == [x \in DOMAIN states \ {st} |-> states[x]]

\* An assignment that replaces the dictionary by the one new entry.
PutState_Replace(states, st, u, t) ==
    [x \in {st} |-> [user_id |-> u, created_at |-> t]]

\* tiktok_login lines 131-134: oauth_states[state] = {...}
PutState(states, st, u, t) ==
    [x \in DOMAIN states \cup {st} |->
        IF x = st THEN [user_id |-> u, created_at |-> t] ELSE states[x]]

\* tiktok_login, lines 126-139, for the authenticated user u.
\* secrets.token_urlsafe(32) is taken to return a value it never returned.
TikTokLoginFor(u) ==
    /\ AppFrame
    /\ IF AuthUrlRaises
       THEN /\ resp' = Answer("tiktok_login", u, 0, 500,
                              MissingOAuthConfigError)
            /\ UNCHANGED <<oauth_states, issued>>
       ELSE \E st \in StateTokens \ issued :
            /\ oauth_states' = PutState(oauth_states, st, u, now)
            /\ issued' = issued \cup {st}
            /\ resp' = Answer("tiktok_login", u, st, 200, NoExc)
    /\ UNCHANGED <<dbVars, Config, token_reqs, succ>>

TikTokLogin == \E u \in Users : TikTokLoginFor(u)

\* A handler without the except clause of lines 170-171.
CallbackHttp_Uncaught(e) == IF e = NoExc THEN 200 ELSE 500

\* tiktok_callback lines 154-171: the status answered when
\* exchange_code_for_token ended with e (NoExc: it returned)
CallbackHttp(e) ==
    IF e = NoExc THEN 200
    ELSE IF e.type = "TikTokAPIError" THEN 502
    ELSE 500

\* tiktok_callback, lines 143-171, for the query parameters code and st
TikTokCallback ==
    /\ AppFrame
    /\ \E code \in Codes, st \in StateTokens :
        IF st \notin DOMAIN oauth_states
        THEN \* line 149
             /\ resp' = Answer("tiktok_callback", 0, st, 400, NoExc)
             /\ UNCHANGED <<dbVars, oauth_states, token_reqs, succ>>
        ELSE
          LET u == oauth_states[st].user_id IN
          /\ oauth_states' = PopState(oauth_states, st)
          /\ IF ExchangeConfigMissing
             THEN \* line 104, not caught by the handler
                  /\ resp' = Answer("tiktok_callback", u, st, 500,
                                    MissingOAuthConfigError)
                  /\ UNCHANGED <<dbVars, token_reqs, succ>>
             ELSE
               \E r \in TokenResponses :
                 /\ token_reqs' = token_reqs + 1
                 /\ IF ExchangeOutcome(r).type = "TikTokAPIError"
                    THEN \* line 171
                         /\ resp' = Answer("tiktok_callback", u, st,
                                           CallbackHttp(ExchangeOutcome(r)),
                                           ExchangeOutcome(r))
                         /\ UNCHANGED <<dbVars, succ>>
                    ELSE IF ExchangeOutcome(r) # NoExc
                    THEN \* KeyError of line 129, not caught
                         /\ resp' = Answer("tiktok_callback", u, st, 500,
                                           ExchangeOutcome(r))
                         /\ UNCHANGED <<dbVars, succ>>
                    ELSE \* lines 157-168
                         /\ SaveTikTokTokens(u, r.access_token,
                                OptStr(r.refresh_token),
                                ExpiresAt(r.expires_in, now))
                         /\ resp' = Answer("tiktok_callback", u, st, 200,
                                           NoExc)
                         /\ succ' = [succ EXCEPT ![st] = @ + 1]
                         /\ UNCHANGED <<now, db_ret>>
    /\ UNCHANGED <<Config, issued>>

\* No handler reads the clock but to stamp what it stores: SpecApp lets no
\* time pass.
NextApp == TikTokLogin \/ TikTokCallback

InitApp ==
    /\ NoPost /\ InitDb /\ InitThreads /\ InitHandlers
    /\ client_key \in ClientKeys
    /\ client_secret \in ClientSecrets
    /\ redirect_uri \in RedirectUris

SpecApp == InitApp /\ [][NextApp]_vars

(***************************************************************************)
(* Properties of post_video (SpecPost)                                     *)
(***************************************************************************)
CeilDiv(a, b) == IF a % b = 0 THEN a \div b ELSE a \div b + 1
Last(q) == q[Len(q)]
NoHttp == init_reqs = <<>> /\ puts = <<>> /\ status_reqs = <<>>
\* The upload loop ran to its end: every PUT was sent and answered.
LoopExited == pc \in {"status", "status_wait", "done"} \/ status_reqs # <<>>
\* The file held file_size bytes whenever it was read.
FileAsMeasured == changes = 0 /\ disk_len = file_size
Terminal == pc \in {"done", "raised"}

\* C1: when the file holds exactly file_size bytes and every PUT is answered
\* 200, 201 or 206, the PUTs sent so far carry inclusive Content-Range
\* intervals that start at 0, each begin one byte after the one before, are
\* as long as the bytes they carry, non-empty, within [0, file_size) and
\* over the total file_size; there are never more than
\* ceil(file_size / CHUNK_SIZE) of them, and when the loop has ended there
\* are exactly that many and the last interval ends at file_size - 1.
C1_RangesCoverFile ==
    FileAsMeasured =>
        /\ Len(puts) <= CeilDiv(file_size, CHUNK_SIZE)
        /\ \A i \in 1..Len(puts) :
            /\ puts[i].hdr.total = file_size
            /\ puts[i].hdr.start <= puts[i].hdr.end
            /\ puts[i].hdr.end - puts[i].hdr.start + 1 = puts[i].hdr.length
            /\ puts[i].hdr.end <= file_size - 1
            /\ puts[i].hdr.start =
                    IF i = 1 THEN 0 ELSE puts[i - 1].hdr.end + 1
        /\ LoopExited =>
            /\ Len(puts) = CeilDiv(file_size, CHUNK_SIZE)
            /\ (Len(puts) > 0 => Last(puts).hdr.end = file_size - 1)

\* The 25 MiB file of the spec was sent in three chunks with its ranges.
C1_Witness ==
    /\ LoopExited /\ FileAsMeasured
    /\ file_size = 26214400
    /\ Len(puts) = 3
    /\ puts[1].hdr.start = 0 /\ puts[1].hdr.end = 10485759
    /\ puts[2].hdr.start = 10485760 /\ puts[2].hdr.end = 20971519
    /\ puts[3].hdr.start = 20971520 /\ puts[3].hdr.end = 26214399
    /\ \A i \in 1..3 : puts[i].hdr.total = 26214400

\* C2: the first PUT answered with a status other than 200, 201 or 206 ends
\* the run with TikTokAPIError "upload_failed" whose message names that
\* chunk's index and the status, and no later PUT is sent: every PUT but the
\* last was answered with a success status, and upload_failed is raised for
\* nothing else.
C2_FirstFailureAborts ==
    /\ \A i \in 1..Len(puts) :
          i < Len(puts) => puts[i].answered /\ puts[i].success
    /\ (puts # <<>> /\ Last(puts).answered /\ ~Last(puts).success) =>
          /\ pc = "raised"
          /\ exc.type = "TikTokAPIError"
          /\ exc.code = "upload_failed"
          /\ exc.message.index = Len(puts) - 1
          /\ exc.message.status = put_status
          /\ put_status \notin {200, 201, 206}
    /\ exc.code = "upload_failed" =>
          puts # <<>> /\ Last(puts).answered /\ ~Last(puts).success

\* The second chunk was answered 500 and the run ended.
C2_Witness ==
    /\ pc = "raised" /\ exc.code = "upload_failed"
    /\ Len(puts) = 2 /\ put_status = 500 /\ exc.message.index = 1

IsInitResp(e) == e \in {"init_resp_ok", "init_resp_err"}

\* C3: the steps of post_video happen in the order credential, file check,
\* init request, init response, PUTs (each answered before the next),
\* status request, status response; the init request is sent only for a file
\* that passed the check, a PUT or the status request only after the init
\* response said "ok", and the status request only after every PUT was
\* answered with a success status.
C3_StepsInOrder ==
    /\ \A i \in 1..Len(trace) :
        /\ trace[i] = "resolve" => i = 1
        /\ trace[i] = "filecheck" => i = 2 /\ trace[1] = "resolve"
        /\ trace[i] = "init_req" => i = 3 /\ trace[2] = "filecheck"
        /\ IsInitResp(trace[i]) => i = 4 /\ trace[3] = "init_req"
        /\ trace[i] = "put_req" =>
              /\ i > 4
              /\ trace[4] = "init_resp_ok"
              /\ trace[i - 1] \in {"init_resp_ok", "put_resp"}
        /\ trace[i] = "put_resp" => trace[i - 1] = "put_req"
        /\ trace[i] = "status_req" =>
              /\ i > 4
              /\ trace[4] = "init_resp_ok"
              /\ trace[i - 1] \in {"init_resp_ok", "put_resp"}
        /\ trace[i] = "status_resp" => trace[i - 1] = "status_req"
    /\ init_reqs # <<>> => file_exists /\ token # None
    /\ status_reqs # <<>> =>
          \A i \in 1..Len(puts) : puts[i].answered /\ puts[i].success

\* A run that took every step, with two chunks.
C3_Witness ==
    /\ pc = "done"
    /\ trace = <<"resolve", "filecheck", "init_req", "init_resp_ok",
                 "put_req", "put_resp", "put_req", "put_resp",
                 "status_req", "status_resp">>

\* C4: with no access_token argument and TIKTOK_ACCESS_TOKEN unset, the run
\* ends with MissingTokenError whether or not the file exists;
\* FileNotFoundError is raised only with a credential resolved and the file
\* absent; neither comes with an HTTP request.
C4_CredentialBeforeFile ==
    /\ (access_token = None /\ env_token = None /\ pc # "resolve") =>
          pc = "raised" /\ exc.type = "MissingTokenError"
    /\ exc.type = "MissingTokenError" => NoHttp
    /\ exc.type = "FileNotFoundError" =>
          /\ ~file_exists
          /\ ~(access_token = None /\ env_token \in {None, ""})
          /\ token = (IF access_token = None THEN env_token ELSE access_token)
          /\ NoHttp

\* No credential and no file: the credential error.
C4_Witness ==
    /\ access_token = None /\ env_token = None /\ ~file_exists
    /\ exc.type = "MissingTokenError"

\* File missing with a credential from the environment.
C4_WitnessFile ==
    /\ access_token = None /\ env_token = "tokE" /\ ~file_exists
    /\ exc.type = "FileNotFoundError"

\* What the sentinel convention asks of a response r and the exception e
\* that came of it.
SentinelRaises(r, e) ==
    /\ (e.type = "TikTokAPIError") <=> (r.code # "ok")
    /\ e.type = "TikTokAPIError" =>
        /\ e.code = (IF r.code = Absent THEN "unknown" ELSE r.code)
        /\ e.message.text = (IF r.message = Absent
                             THEN "Unknown error occurred" ELSE r.message)
    /\ (r.code = "ok" /\ ~r.has_data) => e.type = "KeyError"

\* C8: _init_video_upload and _check_publish_status raise TikTokAPIError
\* exactly when the response's error.code is not "ok", whatever the HTTP
\* status; the exception carries the response's code and message, "unknown"
\* and "Unknown error occurred" standing in for an absent field only;
\* otherwise the data object of the response is what the caller gets
\* (KeyError when the body has none).
C8_SentinelDecides ==
    /\ [][pc = "init_check" =>
            /\ SentinelRaises(last_resp, exc')
            /\ (last_resp.code = "ok" /\ last_resp.publish_id # Absent
                    /\ last_resp.upload_url # Absent) =>
                  /\ pc' = "loop"
                  /\ init_data' = [publish_id |-> last_resp.publish_id,
                                   upload_url |-> last_resp.upload_url]]_vars
    /\ []((trace # <<>> /\ Last(trace) = "status_resp") =>
            /\ SentinelRaises(last_resp, exc)
            /\ (last_resp.code = "ok" /\ last_resp.has_data) =>
                  /\ pc = "done"
                  /\ result.status = (IF last_resp.status = Absent
                                      THEN "UNKNOWN" ELSE last_resp.status))

\* Init answered HTTP 200 with an error code and no message: raised with the
\* code and the fallback message.
C8_Witness ==
    /\ pc = "raised" /\ Last(trace) = "init_resp_err"
    /\ last_resp.http = 200 /\ last_resp.code = "access_token_invalid"
    /\ last_resp.message = Absent
    /\ exc.code = "access_token_invalid"
    /\ exc.message.text = "Unknown error occurred"

\* Status answered HTTP 401 with code "ok": returned.
C8_WitnessOk ==
    /\ pc = "done" /\ last_resp.http = 401 /\ last_resp.code = "ok"

\* C9: a run whose init and PUTs all succeeded calls the status endpoint
\* exactly once, and what it reports is returned as it is with success =
\* TRUE, whatever the status string.
C9_StatusOnceAsIs ==
    /\ Len(status_reqs) <= 1
    /\ (Terminal /\ init_data # NoInitData
            /\ \A i \in 1..Len(puts) : puts[i].success) =>
          Len(status_reqs) = 1
    /\ (trace # <<>> /\ Last(trace) = "status_resp"
            /\ last_resp.code = "ok" /\ last_resp.status # Absent) =>
          /\ pc = "done"
          /\ result.success = TRUE
          /\ result.status = last_resp.status
          /\ result.publish_id = init_data.publish_id

\* The platform is still processing: returned as a success.
C9_Witness ==
    /\ pc = "done" /\ Len(status_reqs) = 1 /\ Len(puts) = 2
    /\ last_resp.status = "PROCESSING_UPLOAD"
    /\ result.status = "PROCESSING_UPLOAD" /\ result.success = TRUE

\* C10: in one run the init endpoint and the status endpoint are each called
\* at most once, and no byte of the file is sent twice: neither the
\* Content-Range intervals of two PUTs nor the stretches of the file they
\* were read from share a byte.
C10_NoRetry ==
    /\ Len(init_reqs) <= 1
    /\ Len(status_reqs) <= 1
    /\ \A i, j \in 1..Len(puts) :
          i < j =>
            /\ \/ puts[i].hdr.end < puts[j].hdr.start
               \/ puts[i].hdr.end < puts[i].hdr.start
               \/ puts[j].hdr.end < puts[j].hdr.start
            /\ puts[i].from + puts[i].hdr.length <= puts[j].from

\* A failing run after two PUTs.
C10_Witness ==
    /\ pc = "raised" /\ Len(puts) = 3 /\ Len(init_reqs) = 1
    /\ exc.code = "upload_failed"

(***************************************************************************)
(* Properties of the OAuth handlers (SpecApp)                              *)
(***************************************************************************)
\* The step is the handling of a tiktok_callback request.
CallbackStep == resp'.flip # resp.flip /\ resp'.handler = "tiktok_callback"

\* C5: a callback whose state is not in oauth_states (never issued, or
\* presented before) is answered 400 and sends nothing to the token endpoint
\* and saves no credential; a callback whose state is there takes it out;
\* for each state at most one callback is answered 200.
C5_StateSingleUse ==
    /\ [](\A st \in StateTokens : succ[st] <= 1)
    /\ [](DOMAIN oauth_states \subseteq issued)
    /\ [][CallbackStep =>
            IF resp'.state \in DOMAIN oauth_states
            THEN resp'.state \notin DOMAIN oauth_states'
            ELSE /\ resp'.http = 400
                 /\ token_reqs' = token_reqs
                 /\ tiktok_tokens' = tiktok_tokens
                 /\ committed' = committed
                 /\ oauth_states' = oauth_states]_vars

\* State 1 linked an account and was then presented again: rejected.
C5_Witness ==
    /\ succ[1] = 1 /\ 1 \in issued
    /\ resp.handler = "tiktok_callback" /\ resp.state = 1 /\ resp.http = 400
    /\ token_reqs = 1

(***************************************************************************)
(* Properties of the credential table                                      *)
(***************************************************************************)
\* C6 (SpecStore): after saves made one after the other, a user saved at
\* least once has exactly one row, and get_tiktok_tokens returns the access
\* token, refresh token and expiry of the latest save for that user, None
\* where that save gave none.
C6_SaveReplaces ==
    \A u \in Users :
        latest[u] # <<>> =>
            /\ Cardinality(RowsOf(tiktok_tokens, u)) = 1
            /\ GetTikTokTokens(tiktok_tokens, u) = {latest[u]}
            /\ RowsOf(committed, u) = RowsOf(tiktok_tokens, u)

\* User 1 was saved twice, the second time without refresh token and
\* expiry, and get_tiktok_tokens returned just that.
C6_Witness ==
    /\ next_id = 3
    /\ RowsOf(tiktok_tokens, 2) = {}
    /\ latest[1] = SaveArgs("at2", None, NoneInt)
    /\ db_ret.fn = "get_tiktok_tokens" /\ db_ret.user = 1
    /\ db_ret.value = latest[1]

\* C7 (SpecDb): a get_tiktok_tokens or has_tiktok_linked for a user, run
\* while a save for that user is under way that began with a row present,
\* finds a credential.
C7_NoEmptyWindow ==
    (db_ret.fn # "none" /\ db_ret.saving) => db_ret.linked

(***************************************************************************)
(* Further properties of post_video (SpecPost)                             *)
(***************************************************************************)
\* C11: at most one PUT is unanswered at any time, and it is the latest; a
\* PUT follows only PUTs that were answered with a success status; the range
\* of each PUT starts after the start of every PUT before it.
C11_OneInFlightAscending ==
    /\ \A i \in 1..Len(puts) :
          i < Len(puts) => puts[i].answered /\ puts[i].success
    /\ (pc = "put_wait") <=> (puts # <<>> /\ ~Last(puts).answered)
    /\ \A i, j \in 1..Len(puts) :
          i < j => puts[i].hdr.start < puts[j].hdr.start

\* C12: once post_video is past lines 231-234, an access_token argument
\* other than None (the empty string included) is the token, whatever
\* TIKTOK_ACCESS_TOKEN holds, and MissingTokenError was not raised; without
\* the argument the token is the value of TIKTOK_ACCESS_TOKEN, and the run
\* ended with MissingTokenError exactly when that is unset or empty. The
\* token goes into the init and status requests as it is.
C12_CredentialResolution ==
    /\ pc # "resolve" =>
        /\ access_token # None =>
              token = access_token /\ exc.type # "MissingTokenError"
        /\ (access_token = None /\ env_token \notin {None, ""}) =>
              token = env_token /\ exc.type # "MissingTokenError"
        /\ (access_token = None /\ env_token \in {None, ""}) =>
              pc = "raised" /\ exc.type = "MissingTokenError"
    /\ \A i \in 1..Len(init_reqs) :
          init_reqs[i].token =
              (IF access_token = None THEN env_token ELSE access_token)
    /\ \A i \in 1..Len(status_reqs) :
          status_reqs[i].token =
              (IF access_token = None THEN env_token ELSE access_token)

\* The empty string was supplied with a token in the environment: the init
\* request went out with the empty string.
C12_Witness ==
    /\ access_token = "" /\ env_token = "tokE"
    /\ init_reqs # <<>> /\ init_reqs[1].token = ""

\* Nothing supplied and the environment variable empty: MissingTokenError.
C12_WitnessMissing ==
    /\ access_token = None /\ env_token = ""
    /\ pc = "raised" /\ exc.type = "MissingTokenError"

\* C13: post_video has returned a value exactly when it ended without an
\* exception, and then the value has success = TRUE, the publish_id that the
\* init response of the run carried, and the status of the status response,
\* "UNKNOWN" when that response's data has no status; a run that failed ended
\* with an exception and returned nothing.
C13_ReturnsSuccessOnly ==
    /\ [](pc = "done" =>
            /\ exc = NoExc
            /\ result.success = TRUE
            /\ result.publish_id = init_data.publish_id
            /\ result.publish_id # Absent
            /\ result.status = (IF last_resp.status = Absent
                                THEN "UNKNOWN" ELSE last_resp.status)
            /\ Last(trace) = "status_resp")
    /\ [](pc # "done" => result = NoResult)
    /\ [](pc = "raised" <=> exc # NoExc)
    \* init_data is what the init response carried, and stays
    /\ [][(pc = "init_check" /\ pc' = "loop") =>
            init_data'.publish_id = last_resp.publish_id]_vars
    /\ [][init_data # NoInitData => init_data' = init_data]_vars

\* The status response had no status field: "UNKNOWN" was returned with the
\* publish_id of the init response.
C13_Witness ==
    /\ pc = "done" /\ last_resp.status = Absent /\ last_resp.has_data
    /\ result = [success |-> TRUE, publish_id |-> "p2", status |-> "UNKNOWN"]
    /\ status_reqs[1].publish_id = "p2"

(***************************************************************************)
(* SpecOAuth: get_authorization_url and exchange_code_for_token of         *)
(* tiktok.py called directly, under every configuration                    *)
(***************************************************************************)
\* Calls of exchange_code_for_token that reach the token endpoint.
MaxCalls == 2

\* tiktok.py:10 and line 80
TIKTOK_AUTH_BASE == "https://www.tiktok.com/v2/auth/authorize"
Scopes == "user.info.basic,video.upload,video.publish"

\* get_authorization_url lines 78-86: the URL, as its base and the query
\* parameters urlencode writes into it.
AuthUrl(st) ==
    [base |-> TIKTOK_AUTH_BASE, client_key |-> client_key, scope |-> Scopes,
     response_type |-> "code", redirect_uri |-> redirect_uri, state |-> st]

\* exchange_code_for_token lines 108-114: the form sent to the token endpoint
TokenRequest(code) ==
    [client_key |-> client_key, client_secret |-> client_secret,
     code |-> code, grant_type |-> "authorization_code",
     redirect_uri |-> redirect_uri]

\* exchange_code_for_token lines 128-133: the dict returned (the bodies of
\* the model carry no token_type, and no caller reads it).
TokenBundle(r) ==
    [access_token |-> r.access_token,
     refresh_token |-> OptStr(r.refresh_token),
     expires_in |-> r.expires_in]

OAuthFrame ==
    UNCHANGED <<postVars, dbVars, thrVars, upVars, authVars, regVars,
                Config, oauth_states, succ, resp>>

\* get_authorization_url()
GetAuthorizationUrl ==
    /\ OAuthFrame
    /\ IF AuthUrlRaises
       THEN /\ call' = [NoCall EXCEPT !.fn = "get_authorization_url",
                                      !.exc = MissingOAuthConfigError]
            /\ UNCHANGED issued
       ELSE \E st \in StateTokens \ issued :
            /\ call' = [NoCall EXCEPT !.fn = "get_authorization_url",
                                      !.url = <<AuthUrl(st)>>,
                                      !.state = st]
            /\ issued' = issued \cup {st}
    /\ UNCHANGED token_reqs

\* exchange_code_for_token(code)
ExchangeCodeForToken ==
    /\ OAuthFrame
    /\ \E code \in Codes :
        IF ExchangeConfigMissing
        THEN /\ call' = [NoCall EXCEPT !.fn = "exchange_code_for_token",
                                       !.exc = MissingOAuthConfigError]
             /\ UNCHANGED token_reqs
        ELSE /\ token_reqs < MaxCalls
             /\ token_reqs' = token_reqs + 1
             /\ \E r \in TokenResponses :
                call' = [NoCall EXCEPT
                            !.fn = "exchange_code_for_token",
                            !.sent = TRUE,
                            !.request = <<TokenRequest(code)>>,
                            !.response = <<r>>,
                            !.exc = ExchangeOutcome(r),
                            !.bundle = IF ExchangeOutcome(r) = NoExc
                                       THEN <<TokenBundle(r)>> ELSE <<>>]
    /\ UNCHANGED issued

NextOAuth == GetAuthorizationUrl \/ ExchangeCodeForToken

SpecOAuth == InitApp /\ [][NextOAuth]_vars

(***************************************************************************)
(* Properties of the OAuth functions (SpecOAuth)                           *)
(***************************************************************************)
Exchanged == call.fn = "exchange_code_for_token"
Missing(v) == v = None \/ v = ""

\* C14: a call of exchange_code_for_token that got a response raised
\* TikTokAPIError exactly when the HTTP status was not 200 or the body had
\* an "error" field, with the body's error as its code when the body has
\* one and "token_exchange_failed" otherwise; it returned a bundle only for
\* status 200 without an error field, and then the tokens of the body.
C14_ExchangeErrors ==
    (Exchanged /\ call.sent) =>
        LET r == call.response[1] IN
        /\ (call.exc.type = "TikTokAPIError") <=>
                (r.http # 200 \/ r.error # Absent)
        /\ call.exc.type = "TikTokAPIError" =>
                /\ call.exc.code = (IF r.error # Absent THEN r.error
                                    ELSE "token_exchange_failed")
                /\ call.bundle = <<>>
        /\ call.bundle # <<>> =>
                /\ r.http = 200 /\ r.error = Absent /\ call.exc = NoExc
                /\ call.bundle[1].access_token = r.access_token
                /\ call.bundle[1].expires_in = r.expires_in
                /\ call.bundle[1].refresh_token =
                        (IF r.refresh_token = Absent THEN None
                         ELSE r.refresh_token)
        /\ (r.http = 200 /\ r.error = Absent /\ r.access_token # Absent) =>
                call.bundle # <<>>

\* HTTP 400 with {"error": "invalid_grant"}: code "invalid_grant".
C14_Witness ==
    /\ Exchanged /\ call.sent
    /\ call.response[1].http = 400
    /\ call.response[1].error = "invalid_grant"
    /\ call.exc.type = "TikTokAPIError" /\ call.exc.code = "invalid_grant"

\* HTTP 200 with an error field: raised all the same.
C14_WitnessStatus200 ==
    /\ Exchanged /\ call.sent
    /\ call.response[1].http = 200
    /\ call.response[1].error = "invalid_grant"
    /\ call.exc.type = "TikTokAPIError"

\* C15: a call of exchange_code_for_token made while the client key, the
\* client secret or the redirect URI is unset or empty raised
\* MissingOAuthConfigError and sent nothing to the token endpoint.
C15_ExchangeNeedsConfig ==
    (Exchanged /\ (Missing(client_key) \/ Missing(client_secret)
                        \/ Missing(redirect_uri))) =>
        /\ call.exc = MissingOAuthConfigError
        /\ ~call.sent
        /\ token_reqs = 0

\* C16: a call of get_authorization_url raised MissingOAuthConfigError
\* exactly when the client key or the redirect URI is unset or empty;
\* otherwise it returned a fresh state and a URL whose parameters are the
\* client key, the three scopes, response_type=code, the redirect URI and
\* that state; the call changed neither oauth_states nor the database.
C16_AuthorizationUrl ==
    /\ [](call.fn = "get_authorization_url" =>
            /\ (call.exc = MissingOAuthConfigError) <=>
                    (Missing(client_key) \/ Missing(redirect_uri))
            /\ call.exc \in {MissingOAuthConfigError, NoExc}
            /\ call.exc = NoExc =>
                    /\ call.url # <<>>
                    /\ call.url[1].base = TIKTOK_AUTH_BASE
                    /\ call.url[1].client_key = client_key
                    /\ call.url[1].scope = Scopes
                    /\ call.url[1].response_type = "code"
                    /\ call.url[1].redirect_uri = redirect_uri
                    /\ call.url[1].state = call.state
                    /\ call.state \in issued
            /\ call.exc # NoExc => call.url = <<>> /\ ~call.sent)
    /\ [][(call' # call /\ call'.fn = "get_authorization_url") =>
            /\ oauth_states' = oauth_states
            /\ tiktok_tokens' = tiktok_tokens
            /\ token_reqs' = token_reqs
            /\ (call'.exc = NoExc => call'.state \notin issued)]_vars

\* A URL was returned for state 2.
C16_Witness ==
    /\ call.fn = "get_authorization_url" /\ call.exc = NoExc
    /\ call.state = 2 /\ call.url[1].state = 2
    /\ call.url[1].client_key = "ck" /\ oauth_states = <<>>

\* The redirect URI is empty: MissingOAuthConfigError.
C16_WitnessMissing ==
    /\ call.fn = "get_authorization_url" /\ client_key = "ck"
    /\ redirect_uri = "" /\ call.exc = MissingOAuthConfigError

(***************************************************************************)
(* SpecUpload: one /upload request, from upload_video's first line through *)
(* the run of post_video it starts to its answer. upload_video is an async *)
(* function without an await: the process handles nothing else meanwhile.  *)
(***************************************************************************)
UPLOADS_DIR == "uploads"
\* file.filename is the filename parameter of the multipart part, as the
\* client sent it.
FileNames == {"", "a.mp4", "/a.mp4"}

\* os.path.isabs on the names above
IsAbs(name) == name \in {"/a.mp4"}

\* os.path.join(dir, name): an absolute name discards dir
PathJoin(dir, name) == IF IsAbs(name) THEN name ELSE dir \o "/" \o name
\* The sizes of the submitted file.
UploadSizes == {0, 1, CHUNK_SIZE + 1}

\* The credential of user u in the tables the request may find.
StoredRow(u) ==
    [id |-> u, user_id |-> u,
     access_token |-> IF u % 2 = 1 THEN "at1" ELSE "at2",
     refresh_token |-> None, expires_at |-> NoneInt, created_at |-> 0]
StoredTables == {{StoredRow(u) : u \in S} : S \in SUBSET Users}

\* str(e): TikTokAPIError formats code and message (tiktok.py line 25), any
\* other exception gives its own text.
StrOfError(e) ==
    [format |-> IF e.type = "TikTokAPIError"
                THEN "TikTok API Error [{code}]: {message}" ELSE "{args}",
     exc |-> e, result |-> NoResult]

\* str(result)
StrOfResult(res) == [format |-> "{dict}", exc |-> NoExc, result |-> res]

\* A variant of lines 199-207 that answers every failure with 500.
UploadHttp_All500(e) == IF e.type = "none" THEN 200 ELSE 500

\* upload_video lines 199, 203, 207: the status of the answer, for the
\* exception e post_video ended with (NoExc: it returned)
UploadHttp(e) ==
    IF e = NoExc THEN 200
    ELSE IF e.type = "TikTokAPIError" THEN 502
    ELSE 500

\* upload_video lines 203, 207: the detail of an error answer
UploadDetail(e) ==
    IF e.type = "TikTokAPIError"
    THEN [format |-> "TikTok API error: {message}", message |-> e.message,
          text |-> StrOfError(NoExc)]
    ELSE [format |-> "Upload failed: {str}", message |-> e.message,
          text |-> StrOfError(e)]

\* upload_video line 199
UploadBody(res) == [status |-> "posted", platform |-> "tiktok", result |-> res]

\* db.py log_post, lines 51-54: the row inserted into posts
LogRow(u, name, status, platform, response) ==
    [user_id |-> u, filename |-> name, status |-> status,
     platform |-> platform, response |-> response]

\* A variant of lines 198-206 without the handler of line 205.
LogRowsOf_ApiOnly(u, name, e, res) ==
    IF e.type = "none"
    THEN <<[user_id |-> u, filename |-> name, status |-> "POSTED",
            platform |-> "tiktok",
            response |-> [format |-> "{dict}", exc |-> e, result |-> res]]>>
    ELSE IF e.type = "TikTokAPIError"
    THEN <<[user_id |-> u, filename |-> name, status |-> "FAILED",
            platform |-> "tiktok",
            response |-> [format |-> "TikTok API Error [{code}]: {message}",
                          exc |-> e, result |-> res]]>>
    ELSE <<>>

\* upload_video lines 198, 202, 206: the log_post calls made for the outcome
\* of post_video, as the rows they insert
LogRowsOf(u, name, e, res) ==
    IF e = NoExc
    THEN <<LogRow(u, name, "POSTED", "tiktok", StrOfResult(res))>>
    ELSE <<LogRow(u, name, "FAILED", "tiktok", StrOfError(e))>>

\* upload_video line 188
NotLinkedDetail ==
    "TikTok account not linked. Please link your TikTok account first."

UploadFrame ==
    UNCHANGED <<dbVars, thrVars, appVars, callVars, authVars, regVars>>

Rejected(u, name, detail) ==
    [NoUpload EXCEPT !.pc = "answered", !.user = u, !.filename = name,
                     !.http = 400, !.detail = <<detail>>]

\* upload_video lines 181-197: the checks, the file written, post_video
\* called
UploadBeginFor(u) ==
    /\ UploadFrame
    /\ upl.pc = "idle"
    /\ \E name \in FileNames, size \in UploadSizes :
        IF name = ""
        THEN \* line 182
             /\ upl' = Rejected(u, name, "No filename provided")
             /\ UNCHANGED <<postVars, files>>
        ELSE \E v \in GetTikTokTokens(tiktok_tokens, u) :
             IF v = <<>>
             THEN \* lines 186-189
                  /\ upl' = Rejected(u, name, NotLinkedDetail)
                  /\ UNCHANGED <<postVars, files>>
             ELSE \* lines 191-197
                  /\ files' = files \cup {PathJoin(UPLOADS_DIR, name)}
                  /\ file_exists' = TRUE
                  /\ disk_len' = size
                  /\ access_token' = v[1].access_token
                  /\ pc' = "resolve"
                  /\ upl' = [NoUpload EXCEPT
                                !.pc = "posting", !.user = u,
                                !.filename = name, !.content = size,
                                !.calls = <<[path |->
                                                PathJoin(UPLOADS_DIR, name),
                                             access_token |->
                                                v[1].access_token]>>]
                  /\ UNCHANGED <<env_token, changes, token, file_size, fpos,
                                 offset, chunk_index, chunk_end, init_data,
                                 init_reqs, puts, put_status, status_reqs,
                                 last_resp, trace, exc, result>>
    /\ UNCHANGED posts

UploadBegin == \E u \in Users : UploadBeginFor(u)

\* upload_video lines 198-207: post_video has returned or raised
UploadEnd ==
    /\ UploadFrame
    /\ upl.pc = "posting"
    /\ pc \in {"done", "raised"}
    /\ posts' = posts \o LogRowsOf(upl.user, upl.filename, exc, result)
    /\ upl' = [upl EXCEPT
                !.pc = "answered",
                !.http = UploadHttp(exc),
                !.body = IF exc = NoExc THEN <<UploadBody(result)>> ELSE <<>>,
                !.detail = IF exc = NoExc THEN <<>>
                           ELSE <<UploadDetail(exc)>>]
    /\ UNCHANGED <<postVars, files>>

NextUpload == UploadBegin \/ NextPost \/ UploadEnd

\* The process before the request: some users have linked an account.
InitUpload ==
    /\ access_token = None
    /\ env_token \in {None, "tokE"}
    /\ file_exists = FALSE
    /\ disk_len = 0
    /\ pc = "idle"
    /\ PostLocals
    /\ tiktok_tokens \in StoredTables
    /\ committed = tiktok_tokens
    /\ next_id = 1 + Max(0, CHOOSE n \in 0..MaxUsers :
                             /\ n = 0 \/ \E r \in tiktok_tokens : r.id = n
                             /\ \A r \in tiktok_tokens : r.id <= n)
    /\ now = 0
    /\ latest = [u \in Users |->
                    IF RowsOf(tiktok_tokens, u) = {} THEN <<>>
                    ELSE <<TokenDict(StoredRow(u))>>]
    /\ db_ret = [fn |-> "none", user |-> 0, value |-> <<>>, linked |-> FALSE,
                 saving |-> FALSE]
    /\ InitThreads
    /\ InitHandlers
    /\ Configured

SpecUpload == InitUpload /\ [][NextUpload]_vars

(***************************************************************************)
(* Properties of /upload (SpecUpload)                                      *)
(***************************************************************************)
\* The request wrote its file and called post_video.
Posting == upl.calls # <<>>
Answered == upl.pc = "answered"

\* C17: a request that wrote its file and called post_video has no record
\* in posts while post_video runs and exactly one when it is answered: for
\* the request's file and user, POSTED with the text of the result when
\* post_video returned, FAILED with the text of the exception when it raised
\* TikTokAPIError or anything else.
C17_OneLogRecord ==
    /\ Len(posts) <= 1
    /\ (Posting /\ ~Answered) => posts = <<>>
    /\ (Posting /\ Answered) =>
        /\ Len(posts) = 1
        /\ posts[1].user_id = upl.user
        /\ posts[1].filename = upl.filename
        /\ posts[1].platform = "tiktok"
        /\ pc = "done" =>
              /\ posts[1].status = "POSTED"
              /\ posts[1].response = StrOfResult(result)
        /\ pc = "raised" =>
              /\ posts[1].status = "FAILED"
              /\ posts[1].response = StrOfError(exc)

\* post_video ended with a KeyError (an init body without data): FAILED.
C17_Witness ==
    /\ Posting /\ Answered /\ exc.type = "KeyError"
    /\ Len(posts) = 1 /\ posts[1].status = "FAILED"

\* post_video returned: POSTED.
C17_WitnessPosted ==
    /\ Posting /\ Answered /\ pc = "done"
    /\ Len(posts) = 1 /\ posts[1].status = "POSTED"

\* C18: the answer to a request that called post_video is 200 with status
\* "posted" and the result when post_video returned, 502 with the error's
\* message in the detail when it raised TikTokAPIError, and 500 with the
\* exception's text in the detail when it raised anything else.
C18_OutcomeToHttp ==
    (Posting /\ Answered) =>
        /\ pc = "done" =>
              /\ upl.http = 200
              /\ upl.body = <<[status |-> "posted", platform |-> "tiktok",
                               result |-> result]>>
        /\ (pc = "raised" /\ exc.type = "TikTokAPIError") =>
              /\ upl.http = 502
              /\ upl.detail[1].format = "TikTok API error: {message}"
              /\ upl.detail[1].message = exc.message
        /\ (pc = "raised" /\ exc.type # "TikTokAPIError") =>
              /\ upl.http = 500
              /\ upl.detail[1].format = "Upload failed: {str}"
              /\ upl.detail[1].text = StrOfError(exc)

\* A chunk was refused: 502 with the message of upload_failed.
C18_Witness ==
    /\ Posting /\ Answered /\ exc.code = "upload_failed"
    /\ upl.http = 502 /\ upl.detail[1].message.status = 500

\* KeyError: 500.
C18_Witness500 ==
    /\ Posting /\ Answered /\ exc.type = "KeyError" /\ upl.http = 500

\* C19: a request with a filename from a user without a row in
\* tiktok_tokens is answered 400, and then no file was written, post_video
\* was not called and posts is empty; post_video runs only for a user that
\* has a row.
C19_UnlinkedRejected ==
    /\ (upl.pc # "idle" /\ upl.filename # ""
            /\ RowsOf(tiktok_tokens, upl.user) = {}) =>
        /\ Answered
        /\ upl.http = 400
        /\ upl.detail = <<NotLinkedDetail>>
        /\ files = {}
        /\ upl.calls = <<>>
        /\ pc = "idle" /\ trace = <<>> /\ init_reqs = <<>>
        /\ posts = <<>>
    /\ Posting => RowsOf(tiktok_tokens, upl.user) # {}

\* User 1 has no credential while user 2 has one: rejected.
C19_Witness ==
    /\ Answered /\ upl.user = 1 /\ upl.filename = "a.mp4"
    /\ RowsOf(tiktok_tokens, 1) = {} /\ RowsOf(tiktok_tokens, 2) # {}
    /\ upl.http = 400 /\ files = {} /\ posts = <<>>

(***************************************************************************)
(* The zero-byte file (SpecPost)                                           *)
(***************************************************************************)
\* post_video measured an existing file of zero bytes.
ZeroByteRun == Len(trace) >= 2 /\ file_exists /\ file_size = 0

\* C20: for an existing file of zero bytes the init request is sent with
\* video_size 0, no PUT is ever sent, the status request follows the
\* accepted init response directly, and the run returns success = TRUE when
\* the status response is accepted.
C20_ZeroByteFile ==
    ZeroByteRun =>
        /\ puts = <<>>
        /\ pc # "init" => Len(init_reqs) = 1
        /\ init_reqs # <<>> => init_reqs[1].video_size = 0
        /\ (Terminal /\ init_data # NoInitData) => Len(status_reqs) = 1
        /\ status_reqs # <<>> =>
              SubSeq(trace, 1, 5) = <<"resolve", "filecheck", "init_req",
                                      "init_resp_ok", "status_req">>
        /\ (Terminal /\ Last(trace) = "status_resp"
                /\ last_resp.code = "ok" /\ last_resp.has_data) =>
              pc = "done" /\ result.success = TRUE
        /\ pc = "done" => result.success = TRUE /\ Len(trace) = 6

\* The run for a zero-byte file returned.
C20_Witness ==
    /\ ZeroByteRun /\ pc = "done" /\ result.success = TRUE
    /\ init_reqs[1].video_size = 0 /\ puts = <<>> /\ Len(status_reqs) = 1

(***************************************************************************)
(* Chunk counts and lengths (SpecPost)                                     *)
(***************************************************************************)
\* The count the init request announced.
Announced == init_reqs[1].total_chunk_count

\* C21, as the code has it: with the file at its measured size, the
\* total_chunk_count of the init request is never less than the number of
\* PUTs sent and equals it once every PUT was answered with a success
\* status; it is at least 1 for a file of one byte or more, and 0 for the
\* zero-byte file, for which no PUT is sent either.
C21_ChunkCountMatches ==
    (init_reqs # <<>> /\ FileAsMeasured) =>
        /\ Len(puts) <= Announced
        /\ LoopExited => Len(puts) = Announced
        /\ file_size > 0 => Announced >= 1
        /\ file_size = 0 => Announced = 0

\* The zero-byte file: zero chunks announced, zero PUTs sent.
C21_Witness ==
    /\ LoopExited /\ FileAsMeasured /\ file_size = 0 /\ pc = "done"
    /\ Announced = 0 /\ puts = <<>>

\* Two chunks announced and sent.
C21_WitnessTwo ==
    /\ LoopExited /\ FileAsMeasured /\ file_size = CHUNK_SIZE + 1
    /\ Announced = 2 /\ Len(puts) = 2

\* C21 as stated: the count matches for a file of one byte or more, and for
\* the zero-byte file the count announced differs from the number of PUTs.
C21_DisagreeAtZero ==
    (init_reqs # <<>> /\ FileAsMeasured /\ LoopExited) =>
        /\ file_size > 0 => Announced >= 1 /\ Len(puts) = Announced
        /\ file_size = 0 => Len(puts) # Announced

\* C22: whatever the file holds when it is read, the Content-Length of each
\* PUT is end - start + 1 of its Content-Range; every PUT that another
\* follows carries CHUNK_SIZE bytes, and the last one carries
\* min(CHUNK_SIZE, file_size - offset) bytes.
C22_LengthMatchesRange ==
    \A i \in 1..Len(puts) :
        /\ puts[i].hdr.length = puts[i].hdr.end - puts[i].hdr.start + 1
        /\ i < Len(puts) => puts[i].hdr.length = CHUNK_SIZE
        /\ (i = Len(puts) /\ LoopExited) =>
              puts[i].hdr.length =
                    Min(CHUNK_SIZE, file_size - puts[i].hdr.start)

(***************************************************************************)
(* SpecAppClock: the OAuth handlers with the clock. Requests come as the   *)
(* users send them, or not at all; the one thing sure to happen is that    *)
(* time passes.                                                            *)
(***************************************************************************)
NextAppClock == TikTokLogin \/ TikTokCallback \/ Tick

SpecAppClock == InitStore /\ [][NextAppClock]_vars /\ WF_vars(Tick)

\* C23: every entry that tiktok_login puts into oauth_states is removed from
\* it at some later time, whether or not a callback presents its state.
C23_StatesEventuallyRemoved ==
    \A st \in StateTokens :
        (st \in DOMAIN oauth_states) ~> (st \notin DOMAIN oauth_states)

(***************************************************************************)
(* SpecAuth: one request to /upload, /auth/tiktok/login or /auth/me with   *)
(* its Authorization header: FastAPI first runs the dependency             *)
(* get_current_user (auth.py) and calls the handler only if that returns.  *)
(***************************************************************************)
Endpoints == {"upload", "tiktok_login", "get_me"}

\* The id of a user that is not in the users table.
UnknownUserId == MaxUsers + 1

\* The "sub" claims a token may carry: none, a text that is no number, the
\* id of a user that exists or of one that does not.
Subs == {Absent, "abc"} \cup {ToString(n) : n \in 1..UnknownUserId}

\* An Authorization header: absent, of another scheme, or a bearer token,
\* which jwt.decode verifies (signature, algorithm and exp) or not.
Credentials ==
    {c \in [scheme : {"none", "Basic", "Bearer"}, verifies : BOOLEAN,
            sub : Subs] :
        c.scheme # "Bearer" => (~c.verifies /\ c.sub = Absent)}

\* int(s), line 66: defined for the decimal numbers.
IsNumber(s) == \E n \in 0..UnknownUserId : ToString(n) = s
IntOf(s) == CHOOSE n \in 0..UnknownUserId : ToString(n) = s

\* db.py get_user_by_id: whether the user exists
UserExists(n) == n \in Users

\* security = HTTPBearer() and get_current_user, lines 61-76: the outcomes
\* for the credentials c, each the status of the rejection or 0 with the
\* user. Without a bearer token HTTPBearer answers 403 or 401, depending on
\* the version of FastAPI; an exception of line 66 is no HTTPException and
\* is answered 500.
GetCurrentUser(c) ==
    IF c.scheme # "Bearer"
    THEN {[http |-> 401, user |-> 0], [http |-> 403, user |-> 0]}
    ELSE IF ~c.verifies
    THEN {[http |-> 401, user |-> 0]}       \* decode_access_token, line 54
    ELSE IF c.sub = Absent \/ ~IsNumber(c.sub)
    THEN {[http |-> 500, user |-> 0]}       \* TypeError / ValueError, line 66
    ELSE IF ~UserExists(IntOf(c.sub))
    THEN {[http |-> 401, user |-> 0]}       \* line 70
    ELSE {[http |-> 0, user |-> IntOf(c.sub)]}

\* The request arrives and get_current_user runs.
Authenticate ==
    /\ auth = NoAuth
    /\ \E e \in Endpoints, c \in Credentials :
        \E o \in GetCurrentUser(c) :
            auth' = [endpoint |-> e, cred |-> c, http |-> o.http,
                     user |-> o.user]
    /\ UNCHANGED <<postVars, dbVars, thrVars, appVars, callVars, upVars,
                   regVars>>

\* get_current_user returned a user for endpoint e.
Passed(e) == auth.endpoint = e /\ auth.http = 0 /\ auth.user # 0

\* main.py get_me, lines 116-122
GetMeFor(u) ==
    /\ AppFrame
    /\ resp' = Answer("get_me", u, 0, 200, NoExc)
    /\ db_ret' = [fn |-> "has_tiktok_linked", user |-> u, value |-> <<>>,
                  linked |-> HasTikTokLinked(tiktok_tokens, u),
                  saving |-> FALSE]
    /\ UNCHANGED <<tiktok_tokens, committed, next_id, now, latest, Config,
                   oauth_states, issued, token_reqs, succ>>

AuthLogin ==
    /\ Passed("tiktok_login") /\ resp = NoAnswer
    /\ TikTokLoginFor(auth.user)

AuthMe ==
    /\ Passed("get_me") /\ resp = NoAnswer
    /\ GetMeFor(auth.user)

AuthUpload ==
    /\ Passed("upload")
    /\ UploadBeginFor(auth.user)

NextAuth ==
    \/ Authenticate
    \/ AuthLogin
    \/ AuthMe
    \/ AuthUpload
    \/ NextPost
    \/ UploadEnd

\* The process before the request: user 1 has linked an account.
InitAuth ==
    /\ InitUpload
    /\ env_token = None
    /\ tiktok_tokens = {StoredRow(1)}

SpecAuth == InitAuth /\ [][NextAuth]_vars

\* The request carries a verified bearer token of an existing user.
ValidJwt(c) ==
    /\ c.scheme = "Bearer" /\ c.verifies
    /\ \E u \in Users : c.sub = ToString(u)

\* Nothing the handlers write has been written.
NothingChanged ==
    /\ files = {} /\ oauth_states = <<>> /\ issued = {}
    /\ posts = <<>> /\ upl = NoUpload /\ resp = NoAnswer
    /\ pc = "idle" /\ trace = <<>> /\ init_reqs = <<>>
    /\ tiktok_tokens = {StoredRow(1)}

\* A request without a valid token for an existing user never reaches its
\* handler: nothing is written.
AuthRejectChangesNothing ==
    (auth # NoAuth /\ ~ValidJwt(auth.cred)) => NothingChanged

\* C24: a request to /upload, /auth/tiktok/login or /auth/me that carries no
\* verified bearer JWT of an existing user is answered 401 or 403, and no
\* file is written, no OAuth state stored, post_video not called and no log
\* record written.
C24_UnauthenticatedRejected ==
    /\ (auth # NoAuth /\ ~ValidJwt(auth.cred)) => auth.http \in {401, 403}
    /\ AuthRejectChangesNothing

(***************************************************************************)
(* SpecRegister: /auth/register handled by worker processes that share the *)
(* database file. Within a process register runs from its first line to    *)
(* its last; between the SELECT of get_user_by_username and the INSERT of   *)
(* create_user another process may run its own. SQLite lets one connection *)
(* write at a time, and the INSERT sees what the others have committed.     *)
(***************************************************************************)
RegNames == {"user1", "alice", "bob"}

\* get_user_by_username: the row with that username, if any
UsersNamed(rows, name) == {r \in rows : r.username = name}

\* A users table whose username column is not declared UNIQUE.
UniqueViolated_NoConstraint(rows, name) == FALSE

\* db.py line 15, username TEXT UNIQUE NOT NULL: whether an INSERT of name
\* fails with sqlite3.IntegrityError
UniqueViolated(rows, name) == UsersNamed(rows, name) # {}

\* id INTEGER PRIMARY KEY AUTOINCREMENT: one more than the largest id ever
\* used (no row of users is ever deleted)
NextUserId(rows) == Cardinality(rows) + 1

RegFrame ==
    UNCHANGED <<postVars, dbVars, thrVars, appVars, callVars, upVars,
                authVars>>

\* register lines 81-83 in process p: the existence check
RegCheck(p) ==
    /\ RegFrame
    /\ reg[p].pc \in {"idle", "answered"}
    /\ \E name \in RegNames :
        reg' = [reg EXCEPT ![p] =
                  IF UsersNamed(users, name) # {}
                  THEN [pc |-> "answered", username |-> name, http |-> 400,
                        token |-> NoneInt]
                  ELSE [pc |-> "create", username |-> name, http |-> 0,
                        token |-> NoneInt]]
    /\ UNCHANGED users

\* register lines 85-93 in process p: create_user, create_access_token
RegCreate(p) ==
    /\ RegFrame
    /\ reg[p].pc = "create"
    /\ IF UniqueViolated(users, reg[p].username)
       THEN \* sqlite3.IntegrityError at db.py line 60, answered 500
            /\ reg' = [reg EXCEPT ![p].pc = "answered", ![p].http = 500]
            /\ UNCHANGED users
       ELSE /\ users' = users \cup {[id |-> NextUserId(users),
                                     username |-> reg[p].username]}
            /\ reg' = [reg EXCEPT ![p].pc = "answered", ![p].http = 200,
                                  ![p].token = Some(NextUserId(users))]

NextRegister ==
    \/ \E p \in Threads : RegCheck(p)
    \/ \E p \in Threads : RegCreate(p)

SpecRegister == InitStore /\ [][NextRegister]_vars

\* C25: no two rows of users have the same username (or the same id); a
\* register request that is answered when its username exists creates no
\* user and issues no token, with 400 when its existence check found the
\* user; a token is issued only for the user the request created.
C25_UniqueUsernames ==
    /\ [](\A a, b \in users :
            (a.username = b.username \/ a.id = b.id) => a = b)
    /\ [][\A p \in Threads :
            (reg'[p] # reg[p] /\ reg'[p].pc = "answered"
                /\ UsersNamed(users, reg'[p].username) # {}) =>
                /\ users' = users
                /\ reg'[p].token = NoneInt
                /\ reg'[p].http \in {400, 500}
                /\ reg[p].pc # "create" => reg'[p].http = 400]_vars
    /\ [](\A p \in Threads :
            reg[p].token # NoneInt =>
                /\ reg[p].http = 200
                /\ [id |-> reg[p].token[1], username |-> reg[p].username]
                        \in users)

\* Two processes registered "alice" at the same time: one user, one token.
C25_Witness ==
    /\ reg[1].username = "alice" /\ reg[2].username = "alice"
    /\ reg[1].http = 200 /\ reg[2].http = 500
    /\ Cardinality(UsersNamed(users, "alice")) = 1

\* A request for the name of an existing user: 400.
C25_Witness400 ==
    /\ reg[1].username = "user1" /\ reg[1].http = 400
    /\ users = ExistingUsers

\* The init call answered with an error sentinel.
InitFailed == \E i \in 1..Len(trace) : trace[i] = "init_resp_err"

\* The chunk PUTs the platform answered with a failure status.
FailedPuts == {i \in 1..Len(puts) : puts[i].answered /\ ~puts[i].success}

\* C26: once the init call has answered with an error no chunk PUT and no
\* status request is ever sent, and post_video ends with the TikTokAPIError
\* built from that response; once a chunk PUT has failed it is the last PUT,
\* no status request is ever sent, and post_video ends with the
\* upload_failed TikTokAPIError of that chunk and status; no result is
\* returned in either case.
C26_FailureStopsLaterSteps ==
    /\ InitFailed =>
        /\ puts = <<>> /\ status_reqs = <<>>
        /\ result = NoResult
        /\ pc \in {"init_check", "raised"}
        /\ pc = "raised" =>
            /\ exc.type = "TikTokAPIError"
            /\ SentinelRaises(last_resp, exc)
    /\ FailedPuts # {} =>
        /\ FailedPuts = {Len(puts)}
        /\ status_reqs = <<>>
        /\ result = NoResult
        /\ pc = "raised"
        /\ exc = UploadFailed(Last(puts).index, put_status)

\* The init call failed and post_video has raised.
C26_Witness ==
    /\ InitFailed /\ pc = "raised" /\ exc.type = "TikTokAPIError"
    /\ Len(init_reqs) = 1

\* The second chunk PUT failed after the first succeeded.
C26_WitnessPut ==
    /\ Len(puts) = 2 /\ puts[1].success /\ FailedPuts = {2}
    /\ pc = "raised" /\ exc.code = "upload_failed"

\* The step is the handling of a tiktok_login request.
LoginStep == resp'.flip # resp.flip /\ resp'.handler = "tiktok_login"

\* C27: the entry a tiktok_login answered 200 put under its state names the
\* user who made that request, and no later step changes an entry while it
\* is there; a tiktok_callback answered 200 presented a state that was
\* there, and after it the user of that entry has exactly one row, a new
\* one, returned by get_tiktok_tokens, while the rows of every other user
\* are the ones they had. The callback request carries no user.
C27_CallbackSavesForStateOwner ==
    /\ [][(LoginStep /\ resp'.http = 200) =>
            /\ resp'.state \in DOMAIN oauth_states'
            /\ oauth_states'[resp'.state].user_id = resp'.user]_vars
    /\ [][\A st \in DOMAIN oauth_states \cap DOMAIN oauth_states' :
            oauth_states'[st] = oauth_states[st]]_vars
    /\ [][(CallbackStep /\ resp'.http = 200) =>
            /\ resp'.state \in DOMAIN oauth_states
            /\ LET u == oauth_states[resp'.state].user_id IN
                /\ token_reqs' = token_reqs + 1
                /\ Cardinality(RowsOf(tiktok_tokens', u)) = 1
                /\ RowsOf(tiktok_tokens', u) \cap tiktok_tokens = {}
                /\ GetTikTokTokens(tiktok_tokens', u) = {latest'[u]}
                /\ committed' = tiktok_tokens'
                /\ \A v \in Users \ {u} :
                    /\ RowsOf(tiktok_tokens', v) = RowsOf(tiktok_tokens, v)
                    /\ latest'[v] = latest[v]]_vars

\* User 2's state was presented and linked user 2 while user 1 was linked
\* already.
C27_Witness ==
    /\ resp.handler = "tiktok_callback" /\ resp.http = 200
    /\ resp.user = 2
    /\ RowsOf(tiktok_tokens, 1) # {} /\ RowsOf(tiktok_tokens, 2) # {}
    /\ \A r \in RowsOf(tiktok_tokens, 1) : r.id < next_id - 1

\* C28: a tiktok_callback in which exchange_code_for_token raised
\* TikTokAPIError is answered 502, and no other callback is; that step
\* changes neither the rows of tiktok_tokens nor what is committed, so
\* get_tiktok_tokens returns for every user what it returned before.
C28_ExchangeErrorKeepsStore ==
    [][CallbackStep =>
        /\ (resp'.error.type = "TikTokAPIError") <=> (resp'.http = 502)
        /\ resp'.http = 502 =>
            /\ token_reqs' = token_reqs + 1
            /\ tiktok_tokens' = tiktok_tokens
            /\ committed' = committed
            /\ next_id' = next_id
            /\ latest' = latest
            /\ \A u \in Users :
                GetTikTokTokens(tiktok_tokens', u) =
                    GetTikTokTokens(tiktok_tokens, u)]_vars

\* User 1, linked before, started a second link that failed at the token
\* endpoint: the first credential is still there.
C28_Witness ==
    /\ resp.handler = "tiktok_callback" /\ resp.http = 502
    /\ resp.user = 1 /\ resp.error.type = "TikTokAPIError"
    /\ succ[1] = 1 /\ resp.state = 2
    /\ GetTikTokTokens(tiktok_tokens, 1) = {latest[1]}

\* C30: a tiktok_login is answered 200 exactly when TIKTOK_CLIENT_KEY and
\* TIKTOK_REDIRECT_URI are both non-empty, and 500 with
\* MissingOAuthConfigError otherwise. Answered 200, oauth_states has one
\* key more, the state it returned, whose entry names the requesting user
\* and the time of the request, and every entry that was there is as it
\* was; answered 500, oauth_states is as it was. The credential table is
\* untouched either way.
C30_LoginAddsOneState ==
    [][LoginStep =>
        /\ tiktok_tokens' = tiktok_tokens
        /\ (resp'.http = 200) <=>
                (Truthy(client_key) /\ Truthy(redirect_uri))
        /\ IF resp'.http = 200
           THEN /\ resp'.state \notin DOMAIN oauth_states
                /\ DOMAIN oauth_states' =
                        DOMAIN oauth_states \cup {resp'.state}
                /\ oauth_states'[resp'.state] =
                        [user_id |-> resp'.user, created_at |-> now]
                /\ \A st \in DOMAIN oauth_states :
                        oauth_states'[st] = oauth_states[st]
           ELSE /\ resp'.http = 500
                /\ resp'.error = MissingOAuthConfigError
                /\ oauth_states' = oauth_states]_vars

\* User 2 logged in while user 1's state was pending: two entries.
C30_Witness ==
    /\ resp.handler = "tiktok_login" /\ resp.http = 200 /\ resp.user = 2
    /\ DOMAIN oauth_states = {1, 2}
    /\ oauth_states[3 - resp.state].user_id = 1
    /\ oauth_states[resp.state].user_id = 2

\* Without TIKTOK_REDIRECT_URI: 500 and no entry.
C30_Witness500 ==
    /\ resp.handler = "tiktok_login" /\ resp.http = 500
    /\ ~Truthy(redirect_uri) /\ Truthy(client_key)
    /\ oauth_states = <<>>

\* The post_video call of the request was made with the access token of a
\* row that tiktok_tokens holds for the requesting user, the one
\* get_tiktok_tokens returns, and that token is the one the init and status
\* requests carry, whatever TIKTOK_ACCESS_TOKEN holds.
UploadUsesStoredToken ==
    Posting =>
        LET c == upl.calls[1] IN
        /\ \E r \in RowsOf(tiktok_tokens, upl.user) :
                r.access_token = c.access_token
        /\ \A v \in GetTikTokTokens(tiktok_tokens, upl.user) :
                v # <<>> /\ v[1].access_token = c.access_token
        /\ access_token = c.access_token
        /\ \A i \in 1..Len(init_reqs) : init_reqs[i].token = c.access_token
        /\ \A i \in 1..Len(status_reqs) :
                status_reqs[i].token = c.access_token

\* C29: a request that was not answered 400 has made exactly one call of
\* post_video, no request makes more than one; the path of the call is
\* UPLOADS_DIR, "/" and the filename of the request, and it is the file the
\* request wrote; the token of the call is the one stored for the
\* requesting user.
C29_PostsWrittenFileWithStoredToken ==
    /\ Len(upl.calls) <= 1
    /\ (upl.pc = "posting" \/ (Answered /\ upl.http # 400)) => Posting
    /\ Posting =>
        /\ upl.calls[1].path = UPLOADS_DIR \o "/" \o upl.filename
        /\ upl.calls[1].path \in files
    /\ UploadUsesStoredToken

(***************************************************************************)
(* Further properties of the credential table                              *)
(***************************************************************************)
\* C31 (SpecDb): when no save_tiktok_tokens call is under way, no user has
\* more than one row in tiktok_tokens, and what is committed is what the
\* table holds.
C31_OneRowAfterConcurrentSaves ==
    (\A t \in Threads : thr[t].op = "idle") =>
        /\ committed = tiktok_tokens
        /\ \A u \in Users : Cardinality(RowsOf(tiktok_tokens, u)) <= 1

(***************************************************************************)
(* Further properties of the OAuth handlers (SpecApp)                      *)
(***************************************************************************)
\* C32: a tiktok_callback that is answered anything but 400 presented a
\* state that was in oauth_states and is not there after it, also when the
\* exchange failed (502, 500) and nothing was saved; a state that was issued
\* and is no longer in oauth_states never comes back; and a callback that
\* presents such a state is answered 400 without a request to the token
\* endpoint. Only tiktok_login puts a state into oauth_states.
C32_FailedExchangeConsumesState ==
    /\ [][(CallbackStep /\ resp'.http # 400) =>
            /\ resp'.state \in DOMAIN oauth_states
            /\ resp'.state \notin DOMAIN oauth_states'
            /\ resp'.http # 200 =>
                tiktok_tokens' = tiktok_tokens /\ succ' = succ]_vars
    /\ [][\A st \in issued \ DOMAIN oauth_states :
            st \notin DOMAIN oauth_states']_vars
    /\ [][(CallbackStep /\ resp'.state \in issued \ DOMAIN oauth_states) =>
            /\ resp'.http = 400
            /\ token_reqs' = token_reqs
            /\ tiktok_tokens' = tiktok_tokens]_vars
    /\ [][\A st \in DOMAIN oauth_states' \ DOMAIN oauth_states :
            LoginStep /\ resp'.state = st /\ st \notin issued]_vars

\* State 1, the only one issued, failed at the token endpoint and was then
\* presented again: 400, and no user is linked.
C32_Witness ==
    /\ issued = {1} /\ oauth_states = <<>>
    /\ token_reqs = 1 /\ succ[1] = 0 /\ tiktok_tokens = {}
    /\ resp.handler = "tiktok_callback" /\ resp.state = 1 /\ resp.http = 400

(***************************************************************************)
(* Termination of the upload loop (SpecPost)                               *)
(***************************************************************************)
\* C33: the loop of _upload_video_chunks sends at most
\* ceil(file_size / CHUNK_SIZE) PUTs, and whenever it is back at its head
\* after a PUT, offset is beyond the start of that PUT, whatever the file
\* holds when it is read.
C33_LoopTerminates ==
    /\ Len(puts) <= CeilDiv(file_size, CHUNK_SIZE)
    /\ (pc = "loop" /\ puts # <<>>) => offset > Last(puts).hdr.start

(***************************************************************************)
(* Further properties of the upload endpoint (SpecUpload)                  *)
(***************************************************************************)
\* C34: the init request of an /upload request reports the size of the
\* content the request submitted, and each of its PUTs carries the bytes of
\* that content from the position it was read at, a full chunk or what is
\* left of the content, although another /upload request with the same
\* filename (FileChange) may write the same path meanwhile.
C34_ConcurrentUploadsIndependent ==
    Posting =>
        /\ \A i \in 1..Len(init_reqs) : init_reqs[i].video_size = upl.content
        /\ \A i \in 1..Len(puts) :
            puts[i].hdr.length = ReadLen(puts[i].from, upl.content)

(***************************************************************************)
(* Further properties of the credential functions (SpecStore)              *)
(***************************************************************************)
\* C35: in every state of sequential calls, for every user,
\* has_tiktok_linked is true exactly when get_tiktok_tokens returns a
\* credential and exactly when save_tiktok_tokens was called for the user;
\* what a read returns agrees with that when it returns; and no step takes
\* a user who has a row to having none.
C35_LinkedIffSaved ==
    /\ [](\A u \in Users :
            /\ HasTikTokLinked(tiktok_tokens, u) <=>
                    (<<>> \notin GetTikTokTokens(tiktok_tokens, u))
            /\ HasTikTokLinked(tiktok_tokens, u) <=> (latest[u] # <<>>))
    /\ [][db_ret' # db_ret =>
            (db_ret'.linked <=> (latest[db_ret'.user] # <<>>))]_vars
    /\ [][\A u \in Users :
            RowsOf(tiktok_tokens, u) # {} =>
                RowsOf(tiktok_tokens', u) # {}]_vars

\* User 1 was saved twice and user 2 never: has_tiktok_linked(2) returned
\* False.
C35_Witness ==
    /\ next_id = 3 /\ latest[1] # <<>> /\ latest[2] = <<>>
    /\ Cardinality(RowsOf(tiktok_tokens, 1)) = 1
    /\ db_ret.fn = "has_tiktok_linked" /\ db_ret.user = 2 /\ ~db_ret.linked

(***************************************************************************)
(* SpecExpiry: an /upload request that arrives some time after the users   *)
(* linked their accounts, with a refresh token and an expiry or without.   *)
(***************************************************************************)
\* The row a callback at time 0 saved for user u from a token response
\* with refresh token rt and expires_in e.
LinkedRow(u, rt, e) ==
    [StoredRow(u) EXCEPT !.refresh_token = OptStr(rt),
                         !.expires_at = ExpiresAt(e, 0)]

\* Nobody linked, or everybody did, all without or all with an expiry.
LinkedTables ==
    {{}} \cup {{LinkedRow(u, x[1], x[2]) : u \in Users} :
                x \in {<<Absent, NoneInt>>, <<"rt1", Some(1)>>}}

\* The access token of r is past its expiry at time t.
Expired(r, t) == r.expires_at # NoneInt /\ t > r.expires_at[1]

\* A second passes before the request arrives.
Wait ==
    /\ upl.pc = "idle"
    /\ now <= MaxClock
    /\ now' = now + 1
    /\ UNCHANGED <<postVars, thrVars, appVars, callVars, upVars, authVars,
                   regVars, tiktok_tokens, committed, next_id, latest,
                   db_ret>>

NextExpiry == Wait \/ UploadBegin \/ NextPost \/ UploadEnd

InitExpiry ==
    /\ access_token = None
    /\ env_token = None
    /\ file_exists = FALSE
    /\ disk_len = 0
    /\ pc = "idle"
    /\ PostLocals
    /\ tiktok_tokens \in LinkedTables
    /\ committed = tiktok_tokens
    /\ next_id = 1 + Cardinality(tiktok_tokens)
    /\ now = 0
    /\ latest = [u \in Users |->
                    IF RowsOf(tiktok_tokens, u) = {} THEN <<>>
                    ELSE <<TokenDict(CHOOSE r \in tiktok_tokens :
                                        r.user_id = u)>>]
    /\ db_ret = [fn |-> "none", user |-> 0, value |-> <<>>, linked |-> FALSE,
                 saving |-> FALSE]
    /\ InitThreads
    /\ InitHandlers
    /\ Configured

SpecExpiry == InitExpiry /\ [][NextExpiry]_vars

\* C36: a request with a filename calls post_video exactly when the
\* requesting user has a row, whatever the row's expires_at and the time;
\* the token of the call and of the init and status requests is the row's
\* access token, never its refresh token; the table is as it was and no
\* request went to the token endpoint.
C36_ExpiryIgnored ==
    /\ (upl.pc # "idle" /\ upl.filename # "") =>
            (Posting <=> RowsOf(tiktok_tokens, upl.user) # {})
    /\ Posting =>
        \A r \in RowsOf(tiktok_tokens, upl.user) :
            /\ upl.calls[1].access_token = r.access_token
            /\ upl.calls[1].access_token # r.refresh_token
            /\ \A i \in 1..Len(init_reqs) :
                    init_reqs[i].token = r.access_token
            /\ \A i \in 1..Len(status_reqs) :
                    status_reqs[i].token = r.access_token
    /\ tiktok_tokens \in LinkedTables
    /\ committed = tiktok_tokens
    /\ token_reqs = 0

\* The upload of a user whose token expired went through to its end with
\* that token.
C36_Witness ==
    /\ Answered /\ upl.http = 200 /\ Posting
    /\ \A r \in RowsOf(tiktok_tokens, upl.user) :
            Expired(r, now) /\ init_reqs[1].token = r.access_token
    /\ result.success

\* C37 (SpecApp): a tiktok_login leaves every entry that was in
\* oauth_states there and as it was, also the entries of the same user; a
\* tiktok_callback, whatever it is answered, leaves oauth_states with the
\* keys it had but the state presented, each with the entry it had.
C37_StatesIndependent ==
    /\ [][LoginStep =>
            \A st \in DOMAIN oauth_states :
                /\ st \in DOMAIN oauth_states'
                /\ oauth_states'[st] = oauth_states[st]]_vars
    /\ [][CallbackStep =>
            /\ DOMAIN oauth_states' = DOMAIN oauth_states \ {resp'.state}
            /\ \A st \in DOMAIN oauth_states' :
                oauth_states'[st] = oauth_states[st]]_vars

\* User 1 logged in twice; the callback for the first state linked the
\* account and the second state is still there.
C37_Witness ==
    /\ resp.handler = "tiktok_callback" /\ resp.state = 1 /\ resp.http = 200
    /\ resp.user = 1 /\ issued = {1, 2}
    /\ DOMAIN oauth_states = {2} /\ oauth_states[2].user_id = 1

\* A rejected callback with a state never issued left the pending state.
C37_WitnessRejected ==
    /\ resp.handler = "tiktok_callback" /\ resp.state = 2 /\ resp.http = 400
    /\ issued = {1} /\ DOMAIN oauth_states = {1}

====
